---- MODULE Spec2Model ----
(***************************************************************************)
(* Frame-composition engine of YouTube-Story-Creator-Pro.                  *)
(*                                                                         *)
(*   Spec            AdvancedVideoCreator.create_professional_video and    *)
(*                   _process_scenes (the Scene Assembler)                 *)
(*   SpecTransition  VideoEffects.apply_transition (easing + variants)     *)
(*   SpecEffects     VideoEffects.apply_effects                            *)
(*   SpecCamera      VideoEffects._ken_burns_effect                        *)
(*                                                                         *)
(* Real numbers of the source are exact rationals here: a value is kept as *)
(* an integer numerator over a denominator that the definition names.      *)
(***************************************************************************)
EXTENDS Integers, Sequences, FiniteSets, TLC

VARIABLES
    \* ---- Scene Assembler (advanced_video_creator.py) ----
    pc,                 \* position inside create_professional_video
    images,             \* the caller's image list (a Python list, shared)
    supplied,           \* the image list as it was when the call was made
    scenes,             \* the local name `images` inside _process_scenes
    story,              \* set of story keys whose text is non-empty
    template_name, custom_settings, template, templates,
    duration, fps, add_captions, add_music, add_watermark, watermark_text,
    total_frames, seconds_per_image, ideal_image_count, frames_per_scene,
    scene_idx, scene_frames, processed_frames, transition_overlap,
    reached,            \* stages of create_professional_video entered so far
    result,             \* what create_professional_video returned
    calls,              \* calls made on this AdvancedVideoCreator so far
    \* ---- Transition Engine (video_effects.py) ----
    tpc, transition, progress_in, progress, img_mix,
    \* ---- Effect Processor (video_effects.py) ----
    epc, config, img, effects_result,
    \* ---- Camera Movement Engine (video_effects.py) ----
    cpc, movement, cam_size, cam_progress, crop, cam_out,
    \* ---- Text Overlay Renderer (text_overlays.py) ----
    apc, text_animation, anchor, text_progress, placed, placed_before

asmVars == <<pc, images, supplied, scenes, story, template_name, custom_settings, template,
             templates, duration, fps, add_captions, add_music, add_watermark,
             watermark_text, total_frames, seconds_per_image, ideal_image_count,
             frames_per_scene, scene_idx, scene_frames, processed_frames,
             transition_overlap, reached, result, calls>>
trVars  == <<tpc, transition, progress_in, progress, img_mix>>
fxVars  == <<epc, config, img, effects_result>>
camVars == <<cpc, movement, cam_size, cam_progress, crop, cam_out>>
anVars  == <<apc, text_animation, anchor, text_progress, placed, placed_before>>
vars    == <<asmVars, trVars, fxVars, camVars, anVars>>

\* what each component's steps leave alone
notAsm == <<trVars, fxVars, camVars, anVars>>
notTr  == <<asmVars, fxVars, camVars, anVars>>
notFx  == <<asmVars, trVars, camVars, anVars>>
notCam == <<asmVars, trVars, fxVars, anVars>>
notAn  == <<asmVars, trVars, fxVars, camVars>>

-----------------------------------------------------------------------------
(* Bounds of the model *)

MaxDuration == 76       \* requested durations are drawn from 1..MaxDuration
MaxFps      == 2        \* frame rates are drawn from 1..MaxFps, plus the default
MaxImages   == 4        \* the caller supplies 0..MaxImages images

(* Program constants *)

DefaultDuration == 30   \* create_professional_video(duration=30)
DefaultFps      == 30   \* create_professional_video(fps=30)

Min(a, b) == IF a < b THEN a ELSE b
Max(a, b) == IF a > b THEN a ELSE b

\* SubSeq that tolerates an empty range (Python slicing)
Slice(s, lo, hi) == IF lo > hi THEN <<>> ELSE SubSeq(s, lo, hi)

None == "None"

-----------------------------------------------------------------------------
(* video_effects.py: the dataclasses.  Multiplicative and strength fields  *)
(* are in hundredths, positions and scales in tenths.                       *)

FxDen == 100

TransitionConfig(type, easing) == [type |-> type, easing |-> easing]

EffectConfigDefault ==
    [blur |-> 0, brightness |-> 100, contrast |-> 100, saturation |-> 100,
     vignette |-> 0, film_grain |-> 0]

EffectConfig(over) ==
    [f \in DOMAIN EffectConfigDefault |->
        IF f \in DOMAIN over THEN over[f] ELSE EffectConfigDefault[f]]

CameraMovement(type, sp, ep, ss, es) ==
    [type |-> type, start_pos |-> sp, end_pos |-> ep,
     start_scale |-> ss, end_scale |-> es]

\* text_overlays.py: TextStyle, the fields the assembler's callers set
TextStyleDefault ==
    [font_size |-> 48, position |-> "bottom", custom_position |-> None,
     background |-> FALSE, shadow |-> TRUE, animation |-> "none"]

TextStyle(over) ==
    [f \in DOMAIN TextStyleDefault |->
        IF f \in DOMAIN over THEN over[f] ELSE TextStyleDefault[f]]

-----------------------------------------------------------------------------
(* video_effects.py: apply_effects.  A bitmap is not modelled pixel by     *)
(* pixel here: the result is the list of enhancement steps the call made,  *)
(* in the order it made them.                                               *)

StepIf(cond, name) == IF cond THEN <<name>> ELSE <<>>

ApplyEffectsStepsMut(cfg) ==
       StepIf(cfg.brightness > FxDen, "brightness")
    \o StepIf(cfg.contrast # FxDen, "contrast")
    \o StepIf(cfg.saturation # FxDen, "saturation")
    \o StepIf(cfg.blur > 0, "blur")
    \o StepIf(cfg.vignette > 0, "vignette")
    \o StepIf(cfg.film_grain > 0, "film_grain")

ApplyEffectsSteps(cfg) ==
       StepIf(cfg.brightness # FxDen, "brightness")
    \o StepIf(cfg.contrast # FxDen, "contrast")
    \o StepIf(cfg.saturation # FxDen, "saturation")
    \o StepIf(cfg.blur > 0, "blur")
    \o StepIf(cfg.vignette > 0, "vignette")
    \o StepIf(cfg.film_grain > 0, "film_grain")

-----------------------------------------------------------------------------
(* video_templates.py: the eight built-in templates *)

Template(tr, fx, cam, styles, genre) ==
    [transitions |-> tr, effects |-> fx, camera_movements |-> cam,
     text_styles |-> styles, music_genre |-> genre]

CinematicTemplate ==
    Template(<<TransitionConfig("fade", "ease-in-out"), TransitionConfig("zoom", "ease-in")>>,
             EffectConfig([contrast |-> 130, saturation |-> 90, vignette |-> 30, film_grain |-> 10]),
             <<CameraMovement("ken_burns", <<4, 4>>, <<6, 6>>, 10, 13)>>,
             ("title" :> TextStyle([font_size |-> 72, animation |-> "fade"]))
               @@ ("subtitle" :> TextStyle([font_size |-> 36])),
             "epic")

DocumentaryTemplate ==
    Template(<<TransitionConfig("fade", "linear"), TransitionConfig("wipe", "ease-out")>>,
             EffectConfig([contrast |-> 100, saturation |-> 95, brightness |-> 105]),
             <<CameraMovement("pan", <<3, 5>>, <<7, 5>>, 10, 10)>>,
             ("title" :> TextStyle([background |-> TRUE]))
               @@ ("caption" :> TextStyle([font_size |-> 28, background |-> TRUE])),
             "ambient")

SocialMediaTemplate ==
    Template(<<TransitionConfig("slide", "ease-out"), TransitionConfig("spin", "ease-in-out")>>,
             EffectConfig([contrast |-> 140, saturation |-> 130, brightness |-> 110]),
             <<CameraMovement("zoom", <<5, 5>>, <<5, 5>>, 10, 12)>>,
             ("title" :> TextStyle([font_size |-> 64, animation |-> "bounce"]))
               @@ ("hashtag" :> TextStyle([font_size |-> 32, position |-> "top"])),
             "upbeat")

MotivationalTemplate ==
    Template(<<TransitionConfig("fade", "ease-in-out"), TransitionConfig("dissolve", "ease-in")>>,
             EffectConfig([contrast |-> 120, saturation |-> 110, brightness |-> 115, vignette |-> 20]),
             <<CameraMovement("ken_burns", <<5, 5>>, <<5, 5>>, 10, 14)>>,
             ("quote" :> TextStyle([font_size |-> 56, position |-> "middle", animation |-> "fade"]))
               @@ ("author" :> TextStyle([font_size |-> 32])),
             "inspirational")

EducationalTemplate ==
    Template(<<TransitionConfig("wipe", "linear"), TransitionConfig("fade", "ease-out")>>,
             EffectConfig([contrast |-> 110, saturation |-> 100, brightness |-> 110]),
             <<CameraMovement("pan", <<2, 5>>, <<8, 5>>, 10, 10)>>,
             ("title" :> TextStyle([background |-> TRUE, position |-> "top"]))
               @@ ("bullet" :> TextStyle([font_size |-> 32, background |-> TRUE])),
             "background")

NewsTemplate ==
    Template(<<TransitionConfig("wipe", "linear")>>,
             EffectConfig([contrast |-> 110, saturation |-> 90, brightness |-> 100]),
             <<>>,
             ("headline" :> TextStyle([font_size |-> 54, background |-> TRUE]))
               @@ ("ticker" :> TextStyle([font_size |-> 24, background |-> TRUE])),
             "news")

StorytellingTemplate ==
    Template(<<TransitionConfig("fade", "ease-in-out"), TransitionConfig("dissolve", "ease-in")>>,
             EffectConfig([contrast |-> 115, saturation |-> 105, brightness |-> 100,
                           film_grain |-> 5, vignette |-> 25]),
             <<CameraMovement("ken_burns", <<3, 3>>, <<7, 7>>, 11, 12)>>,
             ("narration" :> TextStyle([font_size |-> 42, animation |-> "typewriter"]))
               @@ ("chapter" :> TextStyle([font_size |-> 64, position |-> "middle", animation |-> "fade"])),
             "orchestral")

MinimalTemplate ==
    Template(<<TransitionConfig("fade", "linear")>>,
             EffectConfig([contrast |-> 100, saturation |-> 80, brightness |-> 105]),
             <<>>,
             ("title" :> TextStyle([position |-> "middle", animation |-> "fade"]))
               @@ ("subtitle" :> TextStyle([font_size |-> 28])),
             "minimal")

get_templates ==
       ("cinematic" :> CinematicTemplate)
    @@ ("documentary" :> DocumentaryTemplate)
    @@ ("social_media" :> SocialMediaTemplate)
    @@ ("motivational" :> MotivationalTemplate)
    @@ ("educational" :> EducationalTemplate)
    @@ ("news" :> NewsTemplate)
    @@ ("storytelling" :> StorytellingTemplate)
    @@ ("minimal" :> MinimalTemplate)

TemplateNames == DOMAIN get_templates

-----------------------------------------------------------------------------
(* video_effects.py: the Transition Engine.  A progress value is the exact *)
(* fraction num/den.  The bitmaps are ImgWidth x ImgHeight; the result of  *)
(* a variant is, for every pixel, the weights <<wA, wB>> (over progress.den)*)
(* with which the pixel comes from img1 and from img2.                      *)

ImgWidth      == 4      \* bitmap width in pixels
ImgHeight     == 3      \* bitmap height in pixels
ProgressSteps == 4      \* progress values are k / ProgressSteps
NoiseLevels   == 3      \* np.random.random() is level / NoiseLevels, in [0, 1)

Frac(n, d) == [num |-> n, den |-> d]

Pixels == (0..(ImgWidth - 1)) \X (0..(ImgHeight - 1))

\* lines 79-93: _apply_easing
ApplyEasingMut(p, easing) ==
    IF easing = "linear" THEN p
    ELSE IF easing = "ease-in" THEN Frac(p.num * p.num, p.den * p.den)
    ELSE IF easing = "ease-out"
         THEN Frac((p.den - p.num) * (p.den - p.num), p.den * p.den)
    ELSE IF easing = "ease-in-out"
         THEN IF 2 * p.num < p.den
              THEN Frac(2 * p.num * p.num, p.den * p.den)
              ELSE Frac(p.den * p.den - 2 * (p.den - p.num) * (p.den - p.num), p.den * p.den)
    ELSE p

\* ease-in-out whose second branch lost its "1 -"
ApplyEasingDip(p, easing) ==
    IF easing = "linear" THEN p
    ELSE IF easing = "ease-in" THEN Frac(p.num * p.num, p.den * p.den)
    ELSE IF easing = "ease-out"
         THEN Frac(p.den * p.den - (p.den - p.num) * (p.den - p.num), p.den * p.den)
    ELSE IF easing = "ease-in-out"
         THEN IF 2 * p.num < p.den
              THEN Frac(2 * p.num * p.num, p.den * p.den)
              ELSE Frac(2 * (p.den - p.num) * (p.den - p.num), p.den * p.den)
    ELSE p

\* line 90 and line 92: the two branches of ease-in-out
EaseInOutLow(p) == Frac(2 * p.num * p.num, p.den * p.den)
EaseInOutHigh(p) ==
    Frac(p.den * p.den - 2 * (p.den - p.num) * (p.den - p.num), p.den * p.den)

ApplyEasing(p, easing) ==
    IF easing = "linear" THEN p
    ELSE IF easing = "ease-in" THEN Frac(p.num * p.num, p.den * p.den)
    ELSE IF easing = "ease-out"
         THEN Frac(p.den * p.den - (p.den - p.num) * (p.den - p.num), p.den * p.den)
    ELSE IF easing = "ease-in-out"
         THEN IF 2 * p.num < p.den THEN EaseInOutLow(p) ELSE EaseInOutHigh(p)
    ELSE p

OnlyA(q) == <<q.den, 0>>
OnlyB(q) == <<0, q.den>>

\* Image.blend(im1, im2, alpha) = im1 * (1 - alpha) + im2 * alpha
Blend(q) == <<q.den - q.num, q.num>>

\* lines 95-98: _fade_transition
FadeTransitionMut(q) == [px \in Pixels |-> <<q.num, q.den - q.num>>]

FadeTransition(q) == [px \in Pixels |-> Blend(q)]

\* lines 100-114: _slide_transition; offset = int(width * progress)
SlideTransition(q) ==
    LET offset == (ImgWidth * q.num) \div q.den IN
    [px \in Pixels |->
        IF offset > 0 /\ px[1] >= ImgWidth - offset THEN OnlyB(q)
        ELSE IF offset < ImgWidth THEN OnlyA(q)
        ELSE <<0, 0>>]

\* lines 116-147: _zoom_transition.  img2 at scale 0.5 + progress / 2 is
\* pasted on the centre of the zoomed img1, and the paste is blended with it.
ZoomTransition(q) ==
    LET zw == (ImgWidth * (q.den + q.num)) \div (2 * q.den)
        zh == (ImgHeight * (q.den + q.num)) \div (2 * q.den)
        bx == (ImgWidth - zw) \div 2
        by == (ImgHeight - zh) \div 2
    IN  [px \in Pixels |->
            IF q.num < q.den
            THEN IF /\ bx <= px[1] /\ px[1] < bx + zw
                    /\ by <= px[2] /\ px[2] < by + zh
                 THEN Blend(q) ELSE OnlyA(q)
            ELSE Blend(q)]

\* lines 149-165: _wipe_transition.  The mask is the filled triangle
\* (0, wipe_pos), (wipe_pos, 0), (0, 0).  Whether ImageDraw.polygon paints the
\* pixels on the triangle's edge is the rasteriser's choice: `edge`.
WipeTransition(q, edge) ==
    LET wipe_pos == ((ImgWidth + ImgHeight) * q.num) \div q.den IN
    [px \in Pixels |->
        IF px[1] + px[2] < wipe_pos \/ (edge /\ px[1] + px[2] = wipe_pos)
        THEN OnlyB(q) ELSE OnlyA(q)]

\* lines 167-178: _dissolve_transition; mask = noise < progress
NoiseFields ==
    {[px \in Pixels |-> (a * px[1] + b * px[2] + c) % NoiseLevels] :
        a \in 0..(NoiseLevels - 1), b \in 0..(NoiseLevels - 1), c \in 0..(NoiseLevels - 1)}

DissolveTransition(q, noise) ==
    [px \in Pixels |->
        IF noise[px] * q.den < q.num * NoiseLevels THEN OnlyB(q) ELSE OnlyA(q)]

\* lines 180-191: _spin_transition; both images are rotated, then blended
SpinTransition(q) == [px \in Pixels |-> Blend(q)]

\* lines 64-77: the dispatch on transition.type
TransitionVariant(type, q, edge, noise) ==
    IF type = "fade" THEN FadeTransition(q)
    ELSE IF type = "slide" THEN SlideTransition(q)
    ELSE IF type = "zoom" THEN ZoomTransition(q)
    ELSE IF type = "wipe" THEN WipeTransition(q, edge)
    ELSE IF type = "dissolve" THEN DissolveTransition(q, noise)
    ELSE IF type = "spin" THEN SpinTransition(q)
    ELSE FadeTransition(q)

TransitionTypes == {"fade", "slide", "zoom", "wipe", "dissolve", "spin"}
Easings == {"linear", "ease-in", "ease-out", "ease-in-out"}

-----------------------------------------------------------------------------
(* video_effects.py: apply_effects on a bitmap object.  A bitmap is an      *)
(* object identity and its content; the content is the list of enhancement *)
(* steps that produced it from the source picture.                          *)

Bitmap(id, content) == [id |-> id, content |-> content]

\* lines 193-225: img.copy(), then every step rebinds `result` to a new bitmap
ApplyEffects(image, cfg, fresh) ==
    Bitmap(fresh, image.content \o ApplyEffectsSteps(cfg))

\* the values the sliders of the effects panel offer, in hundredths
\* (main_enhanced.py lines 376-385), around each field's identity value
EffectChoices ==
    [blur : {0, 50, 500}, brightness : {50, 100, 150}, contrast : {100, 130},
     saturation : {0, 100}, vignette : {0, 30, 100}, film_grain : {0, 10}]

-----------------------------------------------------------------------------
(* video_effects.py: _ken_burns_effect.  Positions and scales are in       *)
(* tenths; every length along an axis is a numerator over CropDen.          *)

FrameWidth  == 1920
FrameHeight == 1080
CamSteps    == 4        \* progress values are k / CamSteps
PosDen      == 10

\* lines 299-301, times PosDen * p.den
Interpolate(a, b, p) == a * p.den + (b - a) * p.num

CropDen(mv, p) == 2 * PosDen * p.den * Interpolate(mv.start_scale, mv.end_scale, p)

\* lines 306-307: size / current_scale
CropSize(size, mv, p) == size * 2 * PosDen * p.den * PosDen * p.den

\* lines 309-312: <<left, right>> (or <<top, bottom>>) before the clamp
RawCrop(size, from, to, mv, p) ==
    LET lo == Interpolate(from, to, p) * size * 2
                 * Interpolate(mv.start_scale, mv.end_scale, p)
              - CropSize(size, mv, p) \div 2
    IN  <<lo, lo + CropSize(size, mv, p)>>

\* lines 315-318: "Ensure bounds"
EnsureBoundsMut(size, raw, mv, p) == raw

EnsureBounds(size, raw, mv, p) ==
    LET full == size * CropDen(mv, p)
        lo   == Max(0, Min(raw[1], full - CropSize(size, mv, p)))
    IN  <<lo, Min(full, lo + CropSize(size, mv, p))>>

\* line 321: int(); Python truncates toward zero
ToInt(num, den) == IF num >= 0 THEN num \div den ELSE -((-num) \div den)

\* lines 299-321: the crop box handed to img.crop, and its exact rectangle
KenBurnsCrop(size, mv, p) ==
    LET h == EnsureBounds(size[1], RawCrop(size[1], mv.start_pos[1], mv.end_pos[1], mv, p), mv, p)
        v == EnsureBounds(size[2], RawCrop(size[2], mv.start_pos[2], mv.end_pos[2], mv, p), mv, p)
        den == CropDen(mv, p)
    IN  [left |-> h[1], top |-> v[1], right |-> h[2], bottom |-> v[2], den |-> den,
         box |-> <<ToInt(h[1], den), ToInt(v[1], den), ToInt(h[2], den), ToInt(v[2], den)>>]

NoCrop == [left |-> 0, top |-> 0, right |-> 0, bottom |-> 0, den |-> 1, box |-> <<0, 0, 0, 0>>]

\* the frame handed to apply_camera_movement, and no frame returned yet
SourceFrame == Bitmap(1, <<>>)
NoFrame == Bitmap(0, <<>>)

\* lines 280-289: apply_camera_movement; a handler returns a new bitmap,
\* the else branch returns img itself
ApplyCameraMovement(image, mv) ==
    IF mv.type = "ken_burns" THEN Bitmap(image.id + 1, image.content \o <<"ken_burns">>)
    ELSE IF mv.type = "pan" THEN Bitmap(image.id + 1, image.content \o <<"pan">>)
    ELSE IF mv.type = "zoom" THEN Bitmap(image.id + 1, image.content \o <<"zoom">>)
    ELSE IF mv.type = "rotate" THEN Bitmap(image.id + 1, image.content \o <<"rotate">>)
    ELSE image

\* focus coordinates in [0, 1] and scales >= 1, in tenths
FocusChoices == {0, 4, 10}
ScaleChoices == {10, 13, 25}

-----------------------------------------------------------------------------
(* Frames.  A rendered frame is the record of how it was produced: which   *)
(* scene and source image, which effect steps, which camera movement at    *)
(* which progress k/n, and which overlays were drawn on it.  A transition  *)
(* frame keeps the two frames it blends in `parts`.                         *)

SceneFrame(idx, image, steps, cam, k, n) ==
    [kind |-> "scene", scene |-> idx, img |-> image, fx |-> steps, cam |-> cam,
     k |-> k, n |-> n, parts |-> <<>>, tr |-> None,
     title |-> <<>>, end_screen |-> FALSE, caps |-> <<>>, wm |-> <<>>]

TransitionFrame(f1, f2, cfg, k, n) ==
    [kind |-> "transition", scene |-> f2.scene, img |-> 0, fx |-> <<>>, cam |-> None,
     k |-> k, n |-> n, parts |-> <<f1, f2>>, tr |-> cfg,
     title |-> <<>>, end_screen |-> FALSE, caps |-> <<>>, wm |-> <<>>]

-----------------------------------------------------------------------------
(* advanced_video_creator.py: helpers of _process_scenes *)

\* lines 99-101: nothing to process
NoImagesMut(imgs) == Len(imgs) <= 1

NoImages(imgs) == Len(imgs) = 0

\* lines 103-112: the scene table, <<seconds_per_image, ideal_image_count>>
SceneTableMut(d) ==
    IF d < 30 THEN <<10, 3>>
    ELSE IF d <= 45 THEN <<15, 3>>
    ELSE <<15, Max(3, d \div 15)>>

SceneTable(d) ==
    IF d <= 30 THEN <<10, 3>>
    ELSE IF d <= 45 THEN <<15, 3>>
    ELSE <<15, Max(3, d \div 15)>>

\* lines 114-121: pad with the last image, or keep the first `want`
RECURSIVE PadImages(_, _)
PadImages(imgs, want) ==
    IF Len(imgs) < want THEN PadImages(Append(imgs, imgs[Len(imgs)]), want) ELSE imgs

AdjustImagesMut(imgs, want) ==
    IF Len(imgs) < want
    THEN imgs \o [i \in 1..(want - Len(imgs)) |-> imgs[1]]
    ELSE IF Len(imgs) > want THEN Slice(imgs, 1, want)
    ELSE imgs

AdjustImages(imgs, want) ==
    IF Len(imgs) < want THEN PadImages(imgs, want)
    ELSE IF Len(imgs) > want THEN Slice(imgs, 1, want)
    ELSE imgs

\* truncation done on the caller's list as well
CallerImagesTruncated(imgs, want) ==
    IF Len(imgs) < want THEN PadImages(imgs, want)
    ELSE IF Len(imgs) > want THEN Slice(imgs, 1, want)
    ELSE imgs

\* lines 115-121: what the caller's list holds afterwards.  Line 118 appends
\* to the list it was given; line 121 binds the local name to a new list.
CallerImages(imgs, want) ==
    IF Len(imgs) < want THEN PadImages(imgs, want) ELSE imgs

\* lines 189-212: _generate_scene_frames
KnownMovements == {"ken_burns", "pan", "zoom", "rotate"}

GenerateSceneFrames(idx, image, steps, tpl, num_frames) ==
    IF Len(tpl.camera_movements) > 0
    THEN LET mv == tpl.camera_movements[1] IN
         [k \in 1..num_frames |->
            SceneFrame(idx, image, steps,
                       IF mv.type \in KnownMovements THEN mv.type ELSE "unchanged",
                       k - 1, num_frames)]
    ELSE [k \in 1..num_frames |-> SceneFrame(idx, image, steps, "static", k - 1, num_frames)]

\* lines 244-245 and 271-272: int(min(3.0, len(frames) / fps) * fps)
OverlayFramesMut(frames, rate) == Min(3 * rate + 1, Len(frames))

OverlayFrames(frames, rate) == Min(3 * rate, Len(frames))

\* lines 233-258: _add_title_sequence
AddTitleSequence(frames, tpl, rate) ==
    LET title_frames == OverlayFrames(frames, rate)
        style == IF "title" \in DOMAIN tpl.text_styles
                 THEN tpl.text_styles["title"] ELSE TextStyleDefault
    IN  IF Len(frames) = 0 \/ title_frames = 0 THEN frames
        ELSE [i \in 1..Len(frames) |->
                IF i <= Min(title_frames, Len(frames))
                THEN [frames[i] EXCEPT !.title = <<i, title_frames, style>>]
                ELSE frames[i]]

\* lines 260-289: _add_end_screen
AddEndScreen(frames, rate) ==
    LET end_frames == OverlayFrames(frames, rate)
        start_idx == Max(0, Len(frames) - end_frames)
    IN  IF Len(frames) = 0 \/ end_frames = 0 \/ end_frames > Len(frames) THEN frames
        ELSE [i \in 1..Len(frames) |->
                IF i > start_idx THEN [frames[i] EXCEPT !.end_screen = TRUE]
                ELSE frames[i]]

\* lines 214-231: _create_transition
CreateTransitionMut(frames1, frames2, cfg) ==
    LET num_frames == Min(Len(frames1), Len(frames2)) IN
    [i \in 1..(num_frames - 1) |->
        TransitionFrame(frames1[i], frames2[i], cfg, i - 1, num_frames)]

\* progress = (i + 1) / num_frames
CreateTransitionLate(frames1, frames2, cfg) ==
    LET num_frames == Min(Len(frames1), Len(frames2)) IN
    [i \in 1..num_frames |-> TransitionFrame(frames1[i], frames2[i], cfg, i, num_frames)]

CreateTransition(frames1, frames2, cfg) ==
    LET num_frames == Min(Len(frames1), Len(frames2)) IN
    [i \in 1..num_frames |-> TransitionFrame(frames1[i], frames2[i], cfg, i - 1, num_frames)]

\* line 152
TransitionOverlapMut(per_scene) == Max(1, per_scene \div 2)

\* a window of three quarters of a scene
TransitionOverlapWide(per_scene) == Max(1, (3 * per_scene) \div 4)

TransitionOverlapMin(per_scene) == Min(1, per_scene \div 4)

TransitionOverlap(per_scene) == Max(1, per_scene \div 4)

\* line 150 and line 153: is a transition spliced at this boundary?
HasTransition(idx, tpl, per_scene, acc, new) ==
    /\ idx > 0
    /\ Len(tpl.transitions) > 0
    /\ per_scene > 4
    /\ Len(acc) >= TransitionOverlap(per_scene)
    /\ Len(new) >= TransitionOverlap(per_scene)

\* lines 291-321: _generate_captions; a caption is <<segment index, style>>
\* with start_time = index * duration / 5 and end_time = (index + 1) * duration / 5
Segments == <<"hook", "problem", "solution", "impact", "call_to_action">>

GenerateCaptions(st) ==
    LET keep == {j \in 1..Len(Segments) : Segments[j] \in st}
        F[j \in 0..Len(Segments)] ==
            IF j = 0 THEN <<>>
            ELSE IF j \in keep THEN Append(F[j - 1], j - 1) ELSE F[j - 1]
    IN  F[Len(Segments)]

\* text_overlays.py lines 370-403: apply_captions.  Frame i (0-based) is at
\* current_time = i / rate; caption s covers [s*d/5, (s+1)*d/5], so
\* start <= current_time <= end is s*d*rate <= 5*i <= (s+1)*d*rate, and the
\* progress min(1.0, 2 * (t - start) / (end - start)) is over d*rate.
CaptionActive(s, i, d, rate) == s * d * rate <= 5 * i /\ 5 * i <= (s + 1) * d * rate

\* line 388 without the doubling of line 398
CaptionProgressMut(s, i, d, rate) == Min(d * rate, 5 * i - s * d * rate)

\* line 388 and line 398 without min(1.0, ...)
CaptionProgressUnclamped(s, i, d, rate) == 2 * (5 * i - s * d * rate)

CaptionProgress(s, i, d, rate) == Min(d * rate, 2 * (5 * i - s * d * rate))

\* each active caption drawn under the ones drawn before it
ApplyCaptionsMut(frames, captions, d, rate) ==
    [i \in 1..Len(frames) |->
        LET G[c \in 0..Len(captions)] ==
                IF c = 0 THEN frames[i].caps
                ELSE IF CaptionActive(captions[c], i - 1, d, rate)
                     THEN <<<<captions[c], CaptionProgress(captions[c], i - 1, d, rate), d * rate>>>>
                             \o G[c - 1]
                     ELSE G[c - 1]
        IN  [frames[i] EXCEPT !.caps = G[Len(captions)]]]

ApplyCaptions(frames, captions, d, rate) ==
    [i \in 1..Len(frames) |->
        LET G[c \in 0..Len(captions)] ==
                IF c = 0 THEN frames[i].caps
                ELSE IF CaptionActive(captions[c], i - 1, d, rate)
                     THEN Append(G[c - 1], <<captions[c], CaptionProgress(captions[c], i - 1, d, rate), d * rate>>)
                     ELSE G[c - 1]
        IN  [frames[i] EXCEPT !.caps = G[Len(captions)]]]

\* text_overlays.py lines 195-220: _apply_animation.  `bounce` is
\* abs(math.sin(progress * math.pi * 2)) * 20, a value in [0, 20].
ApplyAnimationMut(x, y, animation, p, height, bounce) ==
    IF animation = "fade" THEN [x |-> x, y |-> y, alpha |-> p]
    ELSE IF animation = "slide"
         THEN [x |-> x, y |-> ToInt(y * p.den + (height - y) * p.num, p.den),
               alpha |-> Frac(1, 1)]
    ELSE IF animation = "typewriter"
         THEN [x |-> x, y |-> y, alpha |-> Frac(Min(p.den, 2 * p.num), p.den)]
    ELSE IF animation = "bounce"
         THEN [x |-> x, y |-> y - bounce, alpha |-> Frac(1, 1)]
    ELSE [x |-> x, y |-> y, alpha |-> Frac(1, 1)]

\* alpha = progress also where no animation is named
ApplyAnimationFaded(x, y, animation, p, height, bounce) ==
    IF animation = "slide"
    THEN [x |-> x, y |-> ToInt(y * p.den + (height - y) * (p.den - p.num), p.den),
          alpha |-> Frac(1, 1)]
    ELSE IF animation = "typewriter"
         THEN [x |-> x, y |-> y, alpha |-> Frac(Min(p.den, 2 * p.num), p.den)]
    ELSE IF animation = "bounce"
         THEN [x |-> x, y |-> y - bounce, alpha |-> Frac(1, 1)]
    ELSE [x |-> x, y |-> y, alpha |-> p]

ApplyAnimation(x, y, animation, p, height, bounce) ==
    IF animation = "fade" THEN [x |-> x, y |-> y, alpha |-> p]
    ELSE IF animation = "slide"
         THEN [x |-> x, y |-> ToInt(y * p.den + (height - y) * (p.den - p.num), p.den),
               alpha |-> Frac(1, 1)]
    ELSE IF animation = "typewriter"
         THEN [x |-> x, y |-> y, alpha |-> Frac(Min(p.den, 2 * p.num), p.den)]
    ELSE IF animation = "bounce"
         THEN [x |-> x, y |-> y - bounce, alpha |-> Frac(1, 1)]
    ELSE [x |-> x, y |-> y, alpha |-> Frac(1, 1)]

\* text_overlays.py lines 127-129 and 156: the alpha of the glyphs' fill;
\* fade and typewriter, the animations that set it, do not use the position
TextAlpha(style, p) == ApplyAnimation(0, 0, style.animation, p, FrameHeight, 0).alpha

\* lines 329-336: the watermark's TextStyle
WatermarkStyle ==
    TextStyle([font_size |-> 20, position |-> "custom", custom_position |-> <<50, 50>>,
               background |-> FALSE, shadow |-> TRUE])

\* lines 310-315: the TextStyle of a generated caption
CaptionStyle == TextStyle([font_size |-> 32, position |-> "bottom", background |-> TRUE])

\* lines 323-345: _add_watermark, progress 0.5; a frame's `wm` lists
\* <<progress numerator, denominator, alpha numerator, denominator>>
AddWatermark(frames) ==
    LET alpha == TextAlpha(WatermarkStyle, Frac(1, 2)) IN
    [i \in 1..Len(frames) |->
        [frames[i] EXCEPT !.wm = Append(@, <<1, 2, alpha.num, alpha.den>>)]]

\* lines 179-185: force the length to total_frames
ReconcileMut(frames, total) ==
    IF Len(frames) > total THEN Slice(frames, 1, total) ELSE frames

\* padding that repeats the first frame
ReconcilePadFirst(frames, total) ==
    IF Len(frames) > total THEN Slice(frames, 1, total)
    ELSE IF Len(frames) < total
         THEN frames \o [i \in 1..(total - Len(frames)) |-> frames[1]]
         ELSE frames

Reconcile(frames, total) ==
    IF Len(frames) > total THEN Slice(frames, 1, total)
    ELSE IF Len(frames) < total
         THEN frames \o [i \in 1..(total - Len(frames)) |-> frames[Len(frames)]]
         ELSE frames

\* A custom_settings dict: `keys` are the keys present; an absent key's field
\* is a placeholder.  None and {} both have no keys.
CustomSettings(keys, fx, tr, styles) ==
    [keys |-> keys, effects |-> fx, transitions |-> tr, text_styles |-> styles]

NoCustomSettings == CustomSettings({}, [blur |-> 0], <<>>, "title" :> TextStyleDefault)

\* lines 429-446: _apply_custom_settings (the template object is changed)
ApplyCustomSettings(tpl, custom) ==
    LET t1 == IF "effects" \in custom.keys
              THEN [tpl EXCEPT !.effects =
                      [f \in DOMAIN tpl.effects |->
                         IF f \in DOMAIN custom.effects THEN custom.effects[f] ELSE tpl.effects[f]]]
              ELSE tpl
        t2 == IF "transitions" \in custom.keys
              THEN [t1 EXCEPT !.transitions = custom.transitions] ELSE t1
    IN  IF "text_styles" \in custom.keys
        THEN [t2 EXCEPT !.text_styles = custom.text_styles @@ t2.text_styles] ELSE t2

-----------------------------------------------------------------------------
(* Inputs of create_professional_video *)

\* the durations on and next to the rows of the scene table, the shortest one,
\* and one that three scenes of 15 s fall short of
Durations == {1, 31, 46, 50} \cup {d \in DefaultDuration..MaxDuration : d % 15 = 0}

ImageLists == {[i \in 1..n |-> i] : n \in 0..MaxImages}

StoryKeys == {"title"} \cup {Segments[j] : j \in 1..Len(Segments)}

NoTransitions == CustomSettings({"transitions"}, [blur |-> 0], <<>>, "title" :> TextStyleDefault)

\* what create_professional_video returns: (None, {}) on failure
NotReturned == <<>>
Failure == <<None, "{}">>
Success == <<"video_path", "metadata">>

Request(imgs, st, name, custom, d, rate, caps, music, wm, text) ==
    [images |-> imgs, story |-> st, template_name |-> name, custom_settings |-> custom,
     duration |-> d, fps |-> rate, add_captions |-> caps, add_music |-> music,
     add_watermark |-> wm, watermark_text |-> text]

\* <<add_captions, add_watermark, watermark_text, story, add_music, custom_settings>>:
\* the four flag pairs, a watermark requested with no text, an empty story,
\* and a template whose transitions are overridden to none
Options ==
    {<<TRUE,  TRUE,  "wm", StoryKeys, TRUE,  NoCustomSettings>>,
     <<TRUE,  FALSE, "",   StoryKeys, TRUE,  NoCustomSettings>>,
     <<FALSE, TRUE,  "wm", StoryKeys, FALSE, NoCustomSettings>>,
     <<FALSE, FALSE, "",   {},        FALSE, NoCustomSettings>>,
     <<TRUE,  TRUE,  "",   {},        TRUE,  NoCustomSettings>>,
     <<TRUE,  TRUE,  "wm", StoryKeys, TRUE,  NoTransitions>>,
     <<FALSE, FALSE, "wm", StoryKeys, FALSE, NoTransitions>>}

\* every image count, duration, small frame rate and template name with each option
SmallRequests ==
    {Request(imgs, o[4], name, o[6], d, rate, o[1], o[5], o[2], o[3]) :
        imgs \in ImageLists, name \in TemplateNames \cup {"unknown"},
        d \in Durations, rate \in 1..MaxFps, o \in Options}

\* the call with the signature's defaults (lines 32-41)
DefaultRequests ==
    {Request(imgs, st, name, NoCustomSettings, DefaultDuration, DefaultFps, TRUE, TRUE, FALSE, "") :
        imgs \in ImageLists, name \in TemplateNames, st \in {StoryKeys, {}}}

Requests == SmallRequests \cup DefaultRequests

AsmStart(requests) ==
    /\ pc = "get_template"
    /\ \E r \in requests :
          /\ images = r.images
          /\ supplied = r.images
          /\ story = r.story
          /\ template_name = r.template_name
          /\ custom_settings = r.custom_settings
          /\ duration = r.duration
          /\ fps = r.fps
          /\ add_captions = r.add_captions
          /\ add_music = r.add_music
          /\ add_watermark = r.add_watermark
          /\ watermark_text = r.watermark_text
    /\ scenes = <<>>
    /\ template = None
    /\ templates = get_templates
    /\ total_frames = 0
    /\ seconds_per_image = 0
    /\ ideal_image_count = 0
    /\ frames_per_scene = 0
    /\ scene_idx = 0
    /\ scene_frames = <<>>
    /\ processed_frames = <<>>
    /\ transition_overlap = 0
    /\ reached = {}
    /\ result = NotReturned
    /\ calls = 1

AsmInit == AsmStart(Requests)

AsmIdle ==
    /\ pc = "idle"
    /\ images = <<>> /\ supplied = <<>> /\ scenes = <<>> /\ story = {}
    /\ template_name = "cinematic" /\ custom_settings = NoCustomSettings
    /\ template = None /\ templates = get_templates
    /\ duration = DefaultDuration /\ fps = DefaultFps
    /\ add_captions = TRUE /\ add_music = TRUE
    /\ add_watermark = FALSE /\ watermark_text = ""
    /\ total_frames = 0 /\ seconds_per_image = 0 /\ ideal_image_count = 0
    /\ frames_per_scene = 0 /\ scene_idx = 0 /\ scene_frames = <<>>
    /\ processed_frames = <<>> /\ transition_overlap = 0
    /\ reached = {} /\ result = NotReturned /\ calls = 0

inputVars == <<images, supplied, story, template_name, custom_settings, duration, fps,
               add_captions, add_music, add_watermark, watermark_text, calls>>

-----------------------------------------------------------------------------
(* create_professional_video, lines 45-50: pick the template, apply the    *)
(* custom settings to it (the registry's own object)                        *)

\* a registry that keeps its own template objects
RegistryMut(registry, key, tpl) == registry

\* lines 46-50 and 436-444: `template` is the registry's own object, so what
\* _apply_custom_settings does to it is done to the registry's entry
Registry(registry, key, tpl) == [registry EXCEPT ![key] = tpl]

TemplateKeyMut(name, registry) == IF name \in DOMAIN registry THEN name ELSE "minimal"

\* line 46: self.templates.get(template_name, self.templates["cinematic"])
TemplateKey(name, registry) == IF name \in DOMAIN registry THEN name ELSE "cinematic"

GetTemplate ==
    /\ pc = "get_template"
    /\ UNCHANGED notAsm
    /\ LET key == TemplateKey(template_name, templates)
           tpl == IF custom_settings.keys # {}
                  THEN ApplyCustomSettings(templates[key], custom_settings)
                  ELSE templates[key]
       IN  /\ template' = tpl
           /\ templates' = Registry(templates, key, tpl)
    /\ pc' = "scene_prep"
    /\ UNCHANGED <<images, supplied, scenes, story, template_name, custom_settings, duration, fps,
                   add_captions, add_music, add_watermark, watermark_text, total_frames,
                   seconds_per_image, ideal_image_count, frames_per_scene, scene_idx,
                   scene_frames, processed_frames, transition_overlap, reached, result,
                   calls>>

(* _process_scenes, lines 98-124: SCENE_PREP *)
ScenePrep ==
    /\ pc = "scene_prep"
    /\ UNCHANGED notAsm
    /\ total_frames' = duration * fps
    /\ IF NoImages(images)
       THEN /\ processed_frames' = <<>>
            /\ pc' = "check_frames"
            /\ UNCHANGED <<images, scenes, seconds_per_image, ideal_image_count,
                           frames_per_scene>>
       ELSE /\ seconds_per_image' = SceneTable(duration)[1]
            /\ ideal_image_count' = SceneTable(duration)[2]
            \* padding appends to the caller's list; truncation makes a new list
            /\ images' = CallerImages(images, ideal_image_count')
            /\ scenes' = AdjustImages(images, ideal_image_count')
            /\ frames_per_scene' = seconds_per_image' * fps
            /\ processed_frames' = <<>>
            /\ pc' = "render"
    /\ scene_idx' = 0
    /\ UNCHANGED <<supplied, story, template_name, custom_settings, template, templates, duration,
                   fps, add_captions, add_music, add_watermark, watermark_text,
                   scene_frames, transition_overlap, reached, result, calls>>

(* _process_scenes, lines 126-147: PER_SCENE_RENDER of scene scene_idx *)
RenderScene ==
    /\ pc = "render"
    /\ UNCHANGED notAsm
    /\ LET image == scenes[scene_idx + 1]
           steps == ApplyEffectsSteps(template.effects)
           raw   == GenerateSceneFrames(scene_idx, image, steps, template, frames_per_scene)
       IN  scene_frames' =
              IF scene_idx = 0 THEN AddTitleSequence(raw, template, fps)
              ELSE IF scene_idx = Len(scenes) - 1 THEN AddEndScreen(raw, fps)
              ELSE raw
    /\ pc' = "splice"
    /\ UNCHANGED <<inputVars, scenes, template, templates, total_frames, seconds_per_image,
                   ideal_image_count, frames_per_scene, scene_idx, processed_frames,
                   transition_overlap, reached, result>>

\* list.extend that puts the new frames in front
ExtendMut(acc, new) == new \o acc

\* lines 161 and 164: list.extend
Extend(acc, new) == acc \o new

\* line 126 with one scene too few
AfterSceneMut(idx, count) == IF idx + 2 < count THEN "render" ELSE "captions"

\* line 126: the loop goes on to the next scene, or ends and line 166 follows
AfterScene(idx, count) == IF idx + 1 < count THEN "render" ELSE "captions"

(* _process_scenes, lines 149-164: TRANSITION_SPLICE at the boundary       *)
(* before scene scene_idx, then the append and the loop's next iteration    *)
SpliceScene ==
    /\ pc = "splice"
    /\ UNCHANGED notAsm
    /\ IF HasTransition(scene_idx, template, frames_per_scene, processed_frames, scene_frames)
       THEN LET cfg == template.transitions[(scene_idx % Len(template.transitions)) + 1]
                w   == TransitionOverlap(frames_per_scene)
                n   == Len(processed_frames)
                tfs == CreateTransition(Slice(processed_frames, n - w + 1, n),
                                        Slice(scene_frames, 1, w), cfg)
            IN  /\ transition_overlap' = w
                /\ processed_frames' =
                      Extend(Extend(Slice(processed_frames, 1, n - w), tfs),
                             Slice(scene_frames, w + 1, Len(scene_frames)))
       ELSE /\ transition_overlap' = 0
            /\ processed_frames' = Extend(processed_frames, scene_frames)
    /\ scene_frames' = <<>>
    /\ pc' = AfterScene(scene_idx, Len(scenes))
    /\ scene_idx' = IF pc' = "render" THEN scene_idx + 1 ELSE scene_idx
    /\ UNCHANGED <<inputVars, scenes, template, templates, total_frames, seconds_per_image,
                   ideal_image_count, frames_per_scene, reached, result>>

(* _process_scenes, lines 166-171: CAPTION_PASS *)
CaptionPass ==
    /\ pc = "captions"
    /\ UNCHANGED notAsm
    /\ processed_frames' =
          IF add_captions
          THEN ApplyCaptions(processed_frames, GenerateCaptions(story), duration, fps)
          ELSE processed_frames
    /\ pc' = "watermark"
    /\ UNCHANGED <<inputVars, scenes, template, templates, total_frames, seconds_per_image,
                   ideal_image_count, frames_per_scene, scene_idx, scene_frames,
                   transition_overlap, reached, result>>

(* _process_scenes, lines 173-177: WATERMARK_PASS *)
WatermarkPass ==
    /\ pc = "watermark"
    /\ UNCHANGED notAsm
    /\ processed_frames' =
          IF add_watermark /\ watermark_text # ""
          THEN AddWatermark(processed_frames) ELSE processed_frames
    /\ pc' = "reconcile"
    /\ UNCHANGED <<inputVars, scenes, template, templates, total_frames, seconds_per_image,
                   ideal_image_count, frames_per_scene, scene_idx, scene_frames,
                   transition_overlap, reached, result>>

(* _process_scenes, lines 179-187: LENGTH_RECONCILE and return *)
LengthReconcile ==
    /\ pc = "reconcile"
    /\ UNCHANGED notAsm
    /\ processed_frames' = Reconcile(processed_frames, total_frames)
    /\ pc' = "check_frames"
    /\ UNCHANGED <<inputVars, scenes, template, templates, total_frames, seconds_per_image,
                   ideal_image_count, frames_per_scene, scene_idx, scene_frames,
                   transition_overlap, reached, result>>

(* create_professional_video, lines 58-61 *)
CheckFrames ==
    /\ pc = "check_frames"
    /\ UNCHANGED notAsm
    /\ IF Len(processed_frames) = 0
       THEN result' = Failure /\ pc' = "done"
       ELSE result' = result /\ pc' = "music"
    /\ UNCHANGED <<inputVars, scenes, template, templates, total_frames, seconds_per_image,
                   ideal_image_count, frames_per_scene, scene_idx, scene_frames,
                   processed_frames, transition_overlap, reached>>

(* create_professional_video, lines 63-71 *)
MixMusic ==
    /\ pc = "music"
    /\ UNCHANGED notAsm
    /\ reached' = IF add_music THEN reached \cup {"music"} ELSE reached
    /\ pc' = "encode"
    /\ UNCHANGED <<inputVars, scenes, template, templates, total_frames, seconds_per_image,
                   ideal_image_count, frames_per_scene, scene_idx, scene_frames,
                   processed_frames, transition_overlap, result>>

(* create_professional_video, lines 73-76 *)
EncodeVideo ==
    /\ pc = "encode"
    /\ UNCHANGED notAsm
    /\ reached' = reached \cup {"encode"}
    /\ pc' = "metadata"
    /\ UNCHANGED <<inputVars, scenes, template, templates, total_frames, seconds_per_image,
                   ideal_image_count, frames_per_scene, scene_idx, scene_frames,
                   processed_frames, transition_overlap, result>>

(* create_professional_video, lines 78-83 *)
GenerateMetadata ==
    /\ pc = "metadata"
    /\ UNCHANGED notAsm
    /\ reached' = reached \cup {"metadata"}
    /\ result' = Success
    /\ pc' = "done"
    /\ UNCHANGED <<inputVars, scenes, template, templates, total_frames, seconds_per_image,
                   ideal_image_count, frames_per_scene, scene_idx, scene_frames,
                   processed_frames, transition_overlap>>

Next ==
    \/ GetTemplate \/ ScenePrep \/ RenderScene \/ SpliceScene \/ CaptionPass
    \/ WatermarkPass \/ LengthReconcile \/ CheckFrames \/ MixMusic \/ EncodeVideo
    \/ GenerateMetadata

-----------------------------------------------------------------------------
TrIdle ==
    /\ tpc = "idle" /\ transition = TransitionConfig("fade", "ease-in-out")
    /\ progress_in = Frac(0, 1) /\ progress = Frac(0, 1) /\ img_mix = <<>>
FxIdle ==
    /\ epc = "idle" /\ config = EffectConfigDefault
    /\ img = Bitmap(1, <<>>) /\ effects_result = Bitmap(0, <<>>)

CamIdle ==
    /\ cpc = "idle" /\ movement = CameraMovement("ken_burns", <<5, 5>>, <<5, 5>>, 10, 10)
    /\ cam_size = <<FrameWidth, FrameHeight>>
    /\ cam_progress = Frac(0, 1) /\ crop = NoCrop /\ cam_out = NoFrame

\* no text is being placed
NoPlacement == [x |-> 0, y |-> 0, alpha |-> Frac(0, 1)]

AnIdle ==
    /\ apc = "idle" /\ text_animation = "none" /\ anchor = <<0, 0>>
    /\ text_progress = Frac(0, 1) /\ placed = NoPlacement /\ placed_before = NoPlacement

Init == AsmInit /\ TrIdle /\ FxIdle /\ CamIdle /\ AnIdle
Spec == Init /\ [][Next]_vars

-----------------------------------------------------------------------------
(* Properties of the Scene Assembler (checked under Spec) *)

Returned == pc \in {"check_frames", "music", "encode", "metadata", "done"}

Prepared == pc \notin {"get_template", "scene_prep"} /\ supplied # <<>>

\* C1: for a non-empty image list, whatever the duration, frame rate, template
\* and caption/watermark flags, the sequence _process_scenes returns has
\* exactly duration * fps frames.
C1_FinalLength ==
    (Returned /\ supplied # <<>>) => Len(processed_frames) = duration * fps

\* a run that had to truncate: more images than scenes, watermark and captions on
C1_Witness ==
    /\ pc = "done"
    /\ Len(supplied) > ideal_image_count
    /\ add_captions /\ add_watermark /\ watermark_text # ""
    /\ Len(processed_frames) = duration * fps
    /\ ideal_image_count * frames_per_scene > duration * fps

\* C2: an empty image list gives an empty sequence and the failure result,
\* with no music mixing, encoding or metadata and no partial frames; a
\* non-empty list never gives the failure result.
C2_EmptyInputFails ==
    /\ supplied = <<>> =>
          /\ processed_frames = <<>> /\ scene_frames = <<>>
          /\ reached = {}
          /\ pc \notin {"render", "splice", "captions", "watermark", "reconcile",
                        "music", "encode", "metadata"}
          /\ pc = "done" => result = Failure
    /\ supplied # <<>> =>
          /\ result # Failure
          /\ pc = "done" => result = Success /\ {"encode", "metadata"} \subseteq reached

C2_Witness == pc = "done" /\ supplied = <<>> /\ result = Failure /\ reached = {}

\* C3 as stated: splicing scene i into the accumulated sequence makes it
\* longer by exactly the full frame count of scene i.
C3_SpliceKeepsLength ==
    [][pc = "splice" => Len(processed_frames') = Len(processed_frames) + Len(scene_frames)]_vars

\* C3 as amended: the accumulated sequence grows by the scene's frame count
\* minus the transition window, which is frames_per_scene \div 4 where a
\* transition is spliced and 0 where the scene is appended directly.
C3_SpliceOverlaps ==
    [][pc = "splice" =>
         /\ Len(processed_frames') =
               Len(processed_frames) + Len(scene_frames) - transition_overlap'
         /\ transition_overlap' =
               IF HasTransition(scene_idx, template, frames_per_scene,
                                processed_frames, scene_frames)
               THEN frames_per_scene \div 4 ELSE 0
         /\ Len(scene_frames) = frames_per_scene]_vars

C3_Witness ==
    /\ pc = "captions" /\ transition_overlap > 0
    /\ Len(processed_frames) =
          Len(scenes) * frames_per_scene - (Len(scenes) - 1) * transition_overlap

\* C4: the scene table.  duration <= 30 gives 3 scenes of 10 s, 30 < duration
\* <= 45 gives 3 scenes of 15 s, longer gives max(3, duration \div 15) scenes
\* of 15 s; frames per scene is seconds per scene times fps.
C4_SceneTable ==
    Prepared =>
        /\ duration <= 30 => ideal_image_count = 3 /\ seconds_per_image = 10
        /\ (30 < duration /\ duration <= 45) =>
              ideal_image_count = 3 /\ seconds_per_image = 15
        /\ duration > 45 =>
              /\ seconds_per_image = 15
              /\ ideal_image_count = (IF duration < 60 THEN 3 ELSE duration \div 15)
        /\ duration = 30 => frames_per_scene = 10 * fps
        /\ duration = 45 => frames_per_scene = 15 * fps
        /\ duration = 75 => ideal_image_count = 5 /\ frames_per_scene = 15 * fps
        /\ frames_per_scene = seconds_per_image * fps

C4_Witness ==
    pc = "render" /\ duration = 75 /\ ideal_image_count = 5 /\ frames_per_scene = 15 * fps

\* C5: the scenes rendered are exactly N = ideal_image_count entries: the
\* supplied images in order, then the last supplied image repeated (n < N),
\* or the first N supplied images (n > N), or the list as supplied (n = N).
C5_SceneList ==
    Prepared =>
        /\ Len(scenes) = ideal_image_count
        /\ \A i \in 1..Len(scenes) :
              scenes[i] = IF i <= Len(supplied) THEN supplied[i]
                          ELSE supplied[Len(supplied)]
        /\ Len(supplied) = ideal_image_count => scenes = supplied

C5_Witness ==
    /\ pc = "done" /\ Len(supplied) = 2 /\ ideal_image_count = 5
    /\ scenes = <<1, 2, 2, 2, 2>>

\* C6: where a transition is spliced its window is frames_per_scene \div 4
\* frames wide, fits in the accumulated sequence and in the new scene, and is
\* at most a quarter of a scene; 2 images at 30 s and 30 fps render as 3
\* scenes of 300 frames with a window of 75.
C6_WindowWidth ==
    [][pc = "splice" =>
         /\ transition_overlap' > 0 =>
               /\ transition_overlap' = frames_per_scene \div 4
               /\ transition_overlap' <= Min(Len(processed_frames), Len(scene_frames))
               /\ 4 * transition_overlap' <= frames_per_scene
         /\ (Len(supplied) = 2 /\ duration = 30 /\ fps = 30 /\ scene_idx = 1) =>
               /\ Len(scenes) = 3 /\ frames_per_scene = 300
               /\ Len(template.transitions) > 0 => transition_overlap' = 75]_vars

C6_Witness ==
    /\ pc = "render" /\ scene_idx = 2 /\ transition_overlap = 75
    /\ Len(supplied) = 2 /\ duration = 30 /\ fps = 30
    /\ Len(processed_frames) = 525

-----------------------------------------------------------------------------
(* apply_transition as a process: the call, line 62, lines 64-77 *)

TrInit ==
    /\ tpc = "ready" /\ transition = TransitionConfig("fade", "ease-in-out")
    /\ progress_in = Frac(0, 1) /\ progress = Frac(0, 1) /\ img_mix = <<>>

\* apply_transition(img1, img2, transition, progress) is called
TransitionCall ==
    /\ tpc = "ready"
    /\ UNCHANGED notTr
    /\ \E type \in TransitionTypes \cup {"flip"}, easing \in Easings \cup {"bounce"},
          k \in 0..ProgressSteps :
          /\ transition' = TransitionConfig(type, easing)
          /\ progress_in' = Frac(k, ProgressSteps)
          /\ progress' = Frac(k, ProgressSteps)
    /\ img_mix' = <<>>
    /\ tpc' = "called"

\* line 62: progress = _apply_easing(progress, transition.easing)
TransitionEase ==
    /\ tpc = "called"
    /\ UNCHANGED notTr
    /\ progress' = ApplyEasing(progress, transition.easing)
    /\ tpc' = "eased"
    /\ UNCHANGED <<transition, progress_in, img_mix>>

\* lines 64-77: the variant runs on the local `progress`
TransitionDispatch ==
    /\ tpc = "eased"
    /\ UNCHANGED notTr
    /\ \E edge \in BOOLEAN, noise \in NoiseFields :
          img_mix' = TransitionVariant(transition.type, progress, edge, noise)
    /\ tpc' = "returned"
    /\ UNCHANGED <<transition, progress_in, progress>>

TransitionInit == AsmIdle /\ TrInit /\ FxIdle /\ CamIdle /\ AnIdle
TransitionNext == TransitionCall \/ TransitionEase \/ TransitionDispatch
SpecTransition == TransitionInit /\ [][TransitionNext]_vars

-----------------------------------------------------------------------------
(* Properties of the Transition Engine (checked under SpecTransition) *)

FromA(px) == img_mix[px][1]
FromB(px) == img_mix[px][2]

AtStart == tpc = "returned" /\ progress_in.num = 0
AtEnd   == tpc = "returned" /\ progress_in.num = progress_in.den

\* C7 as stated: for every variant and easing, at progress 0 no pixel has
\* any weight from B, and at progress 1 no pixel has any weight from A.
C7_Boundaries ==
    /\ AtStart => \A px \in Pixels : FromB(px) = 0 /\ FromA(px) > 0
    /\ AtEnd   => \A px \in Pixels : FromA(px) = 0 /\ FromB(px) > 0

\* C7 as amended: the same, except that the wipe at progress 0 may take the
\* one corner pixel (0, 0) from B (the degenerate triangle's only point).
C7_BoundariesButWipeCorner ==
    /\ AtStart => \A px \in Pixels :
          \/ FromB(px) = 0 /\ FromA(px) > 0
          \/ transition.type = "wipe" /\ px = <<0, 0>> /\ FromA(px) = 0 /\ FromB(px) > 0
    /\ AtEnd   => \A px \in Pixels : FromA(px) = 0 /\ FromB(px) > 0

C7_Witness ==
    /\ AtEnd /\ transition = TransitionConfig("slide", "ease-in-out")
    /\ \A px \in Pixels : img_mix[px] = <<0, progress.den>>

\* C8: linear, ease-in, ease-out and ease-in-out map 0 to 0 and 1 to 1, and
\* the variant works on the eased progress: a fade weighs img2 by
\* p, p^2, 1 - (1 - p)^2, or the piecewise quadratic of ease-in-out.
C8_EasingEndpoints ==
    LET n == progress_in.num
        d == progress_in.den
    IN  /\ (tpc \in {"eased", "returned"} /\ transition.easing \in Easings) =>
              /\ n = 0 => progress.num = 0
              /\ n = d => progress.num = progress.den
        /\ tpc = "called" => progress = progress_in /\ img_mix = <<>>
        /\ (tpc = "returned" /\ transition.type = "fade") =>
              \A px \in Pixels :
                 FromB(px) * d * d = progress.den *
                    (CASE transition.easing = "ease-in" -> n * n
                       [] transition.easing = "ease-out" -> d * d - (d - n) * (d - n)
                       [] transition.easing = "ease-in-out" ->
                             IF 2 * n < d THEN 2 * n * n ELSE d * d - 2 * (d - n) * (d - n)
                       [] OTHER -> n * d)

C8_Witness ==
    /\ tpc = "returned" /\ transition = TransitionConfig("fade", "ease-out")
    /\ progress_in = Frac(ProgressSteps, ProgressSteps)
    /\ progress.num = progress.den
    /\ \A px \in Pixels : FromA(px) = 0

-----------------------------------------------------------------------------
(* apply_effects as a process *)

FxInit ==
    /\ epc = "ready" /\ config = EffectConfigDefault
    /\ img = Bitmap(1, <<>>) /\ effects_result = Bitmap(0, <<>>)

\* apply_effects(img, config) is called, on a source picture or on a bitmap
\* that was enhanced before
EffectsCall ==
    /\ epc = "ready"
    /\ UNCHANGED notFx
    /\ config' \in EffectChoices
    /\ img' \in {Bitmap(1, <<>>), Bitmap(1, <<"contrast">>)}
    /\ effects_result' = Bitmap(0, <<>>)
    /\ epc' = "called"

\* lines 196-225
EffectsApply ==
    /\ epc = "called"
    /\ UNCHANGED notFx
    /\ effects_result' = ApplyEffects(img, config, img.id + 1)
    /\ epc' = "returned"
    /\ UNCHANGED <<config, img>>

EffectsInit == AsmIdle /\ TrIdle /\ FxInit /\ CamIdle /\ AnIdle
EffectsNext == EffectsCall \/ EffectsApply
SpecEffects == EffectsInit /\ [][EffectsNext]_vars

-----------------------------------------------------------------------------
(* Properties of the Effect Processor (checked under SpecEffects) *)

EffectOrder == <<"brightness", "contrast", "saturation", "blur", "vignette", "film_grain">>

NotIdentity(f) == config[f] # EffectConfigDefault[f]

\* the steps that this call added to the input's content
StepsTaken ==
    Slice(effects_result.content, Len(img.content) + 1, Len(effects_result.content))

\* C9: apply_effects applies exactly the steps whose field is not at its
\* identity value, in the order brightness, contrast, saturation, blur,
\* vignette, film grain; with the default EffectConfig it applies none and
\* returns a new bitmap with the input's content, the input untouched.
C9_EffectSteps ==
    epc = "returned" =>
        /\ StepsTaken = SelectSeq(EffectOrder, NotIdentity)
        /\ Slice(effects_result.content, 1, Len(img.content)) = img.content
        /\ effects_result.id # img.id
        /\ img \in {Bitmap(1, <<>>), Bitmap(1, <<"contrast">>)}
        /\ config = EffectConfigDefault => effects_result.content = img.content

C9_Witness ==
    /\ epc = "returned" /\ config = EffectConfigDefault
    /\ img = Bitmap(1, <<"contrast">>) /\ effects_result = Bitmap(2, <<"contrast">>)

-----------------------------------------------------------------------------
(* _ken_burns_effect as a process *)

CamInit ==
    /\ cpc = "ready" /\ movement = CameraMovement("ken_burns", <<5, 5>>, <<5, 5>>, 10, 10)
    /\ cam_size = <<FrameWidth, FrameHeight>>
    /\ cam_progress = Frac(0, 1) /\ crop = NoCrop /\ cam_out = NoFrame

\* _ken_burns_effect(img, movement, progress) is called
KenBurnsCall ==
    /\ cpc = "ready"
    /\ UNCHANGED notCam
    /\ \E sp \in FocusChoices \X FocusChoices, ep \in FocusChoices \X FocusChoices,
          ss \in ScaleChoices, es \in ScaleChoices :
          movement' = CameraMovement("ken_burns", sp, ep, ss, es)
    /\ cam_size' \in {<<FrameWidth, FrameHeight>>, <<ImgWidth, ImgHeight>>}
    /\ \E k \in 0..CamSteps : cam_progress' = Frac(k, CamSteps)
    /\ crop' = NoCrop
    /\ cam_out' = NoFrame
    /\ cpc' = "called"

\* lines 299-321
KenBurnsEffect ==
    /\ cpc = "called"
    /\ UNCHANGED notCam
    /\ crop' = KenBurnsCrop(cam_size, movement, cam_progress)
    /\ cpc' = "returned"
    /\ UNCHANGED <<movement, cam_size, cam_progress, cam_out>>

CameraInit == AsmIdle /\ TrIdle /\ FxIdle /\ CamInit /\ AnIdle
CameraNext == KenBurnsCall \/ KenBurnsEffect
SpecCamera == CameraInit /\ [][CameraNext]_vars

-----------------------------------------------------------------------------
(* Properties of the Camera Movement Engine (checked under SpecCamera) *)

\* C10: for focus coordinates in [0, 1], scales >= 1 and progress in [0, 1]
\* the crop rectangle of _ken_burns_effect lies in the source frame:
\* 0 <= left <= right <= width and 0 <= top <= bottom <= height, both as
\* computed and as truncated to the integers handed to img.crop.
C10_CropInsideFrame ==
    cpc = "returned" =>
        /\ 0 <= crop.left /\ crop.left <= crop.right
        /\ crop.right <= cam_size[1] * crop.den
        /\ 0 <= crop.top /\ crop.top <= crop.bottom
        /\ crop.bottom <= cam_size[2] * crop.den
        /\ 0 <= crop.box[1] /\ crop.box[1] <= crop.box[3] /\ crop.box[3] <= cam_size[1]
        /\ 0 <= crop.box[2] /\ crop.box[2] <= crop.box[4] /\ crop.box[4] <= cam_size[2]

\* a focus in the corner, where the unclamped rectangle would leave the frame
C10_Witness ==
    /\ cpc = "returned"
    /\ movement = CameraMovement("ken_burns", <<0, 0>>, <<10, 10>>, 13, 25)
    /\ cam_progress = Frac(0, CamSteps) /\ cam_size = <<FrameWidth, FrameHeight>>
    /\ RawCrop(FrameWidth, 0, 10, movement, cam_progress)[1] < 0
    /\ crop.box[1] = 0 /\ crop.box[2] = 0
    /\ crop.box[3] < FrameWidth /\ crop.box[4] < FrameHeight

-----------------------------------------------------------------------------
(* Properties of the Caption Timeline (checked under Spec).  After the      *)
(* caption pass frame i (0-based) is processed_frames[i + 1]; its `caps`    *)
(* lists <<segment, progress numerator, progress denominator>> for every    *)
(* caption drawn on it, in drawing order.                                    *)

Captioned == pc = "watermark" /\ add_captions

FrameIndexes == 0..(Len(processed_frames) - 1)

CaptionsOn(i) == processed_frames[i + 1].caps

HasCaption(i, s) == \E c \in 1..Len(CaptionsOn(i)) : CaptionsOn(i)[c][1] = s

\* the caption segments of the story that have text, as 0-based indexes
StorySegments == {s \in 0..(Len(Segments) - 1) : Segments[s + 1] \in story}

\* C11 as stated: caption s is drawn on frame i exactly when
\* start_time <= i / fps < end_time, with start_time = s * duration / 5 and
\* end_time = (s + 1) * duration / 5; not on a frame whose playhead is end_time.
C11_HalfOpenInterval ==
    Captioned =>
        \A i \in FrameIndexes, s \in StorySegments :
            HasCaption(i, s) <=>
                (s * duration * fps <= 5 * i /\ 5 * i < (s + 1) * duration * fps)

\* C12: the progress handed to the text renderer for caption s on frame i is
\* min(1, 2 * (t - start) / (end - start)): 0 at t = start, never decreasing
\* from one frame to the next, 1 from the middle of the interval on.
C12_CaptionProgress ==
    Captioned =>
        \A i \in FrameIndexes :
            \A c \in 1..Len(CaptionsOn(i)) :
                LET s      == CaptionsOn(i)[c][1]
                    num    == CaptionsOn(i)[c][2]
                    den    == CaptionsOn(i)[c][3]
                    \* (t - start) / (end - start) = since / length
                    since  == 5 * i - s * duration * fps
                    length == duration * fps
                IN  /\ den = length /\ den > 0
                    /\ 0 <= num /\ num <= den
                    /\ num = 0 <=> since = 0
                    /\ 2 * since < length => num = 2 * since
                    /\ 2 * since >= length => num = den
                    /\ (i + 1 \in FrameIndexes /\ HasCaption(i + 1, s)) =>
                          \E c2 \in 1..Len(CaptionsOn(i + 1)) :
                              /\ CaptionsOn(i + 1)[c2][1] = s
                              /\ CaptionsOn(i + 1)[c2][2] >= num

\* the second caption at its start (0), a quarter in (1/2) and half way (1)
C12_Witness ==
    /\ Captioned /\ duration = 60 /\ fps = 2 /\ story = StoryKeys
    /\ CaptionsOn(24) = <<<<0, 120, 120>>, <<1, 0, 120>>>>
    /\ CaptionsOn(30) = <<<<1, 60, 120>>>>
    /\ CaptionsOn(36) = <<<<1, 120, 120>>>>
    /\ CaptionsOn(47) = <<<<1, 120, 120>>>>

-----------------------------------------------------------------------------
(* Progress values (checked under Spec) *)

\* text_overlays.py line 104: add_text_overlay(..., progress = 1.0), the value
\* create_end_screen's calls use
DefaultProgress == <<1, 1>>

\* every <<numerator, denominator>> that producing frame f handed to
\* apply_camera_movement, apply_transition or add_text_overlay
OwnProgress(f) ==
       (IF f.kind = "scene" /\ f.cam # "static" THEN {<<f.k, f.n>>} ELSE {})
    \cup (IF f.kind = "transition" THEN {<<f.k, f.n>>} ELSE {})
    \cup (IF f.title # <<>> THEN {<<f.title[1], f.title[2]>>} ELSE {})
    \cup (IF f.end_screen THEN {DefaultProgress} ELSE {})
    \cup {<<f.caps[c][2], f.caps[c][3]>> : c \in 1..Len(f.caps)}
    \cup {<<f.wm[c][1], f.wm[c][2]>> : c \in 1..Len(f.wm)}

ProgressValues(f) ==
    OwnProgress(f) \cup UNION {OwnProgress(f.parts[j]) : j \in 1..Len(f.parts)}

AllFrames ==
    {processed_frames[i] : i \in 1..Len(processed_frames)}
        \cup {scene_frames[i] : i \in 1..Len(scene_frames)}

\* C13: every progress value the assembler and the caption timeline pass to
\* the camera, transition and text functions is in [0, 1].
C13_ProgressInRange ==
    \A f \in AllFrames : \A v \in ProgressValues(f) :
        v[2] > 0 /\ 0 <= v[1] /\ v[1] <= v[2]

\* a finished sequence with all six kinds of progress in it, the extremes
\* 0 (camera, transition, caption) and 1 (title, end screen, caption) included
C13_Witness ==
    /\ pc = "done" /\ fps = 2 /\ duration = 30
    /\ \E f \in AllFrames : f.kind = "scene" /\ f.cam = "ken_burns" /\ f.k = 0
    /\ \E f \in AllFrames : f.kind = "transition" /\ f.k = 0
    /\ \E f \in AllFrames : f.kind = "transition" /\ f.k = f.n - 1 /\ f.n = 5
    /\ \E f \in AllFrames : f.title # <<>> /\ f.title[1] = f.title[2]
    /\ \E f \in AllFrames : f.end_screen
    /\ \E f \in AllFrames : \E c \in 1..Len(f.caps) : f.caps[c][2] = 0
    /\ \E f \in AllFrames : \E c \in 1..Len(f.caps) : f.caps[c][2] = f.caps[c][3]
    /\ \A f \in AllFrames : Len(f.wm) = 1 /\ f.wm[1][1] = 1 /\ f.wm[1][2] = 2

-----------------------------------------------------------------------------
(* Order of the stages of _process_scenes (checked under Spec) *)

\* C14 as stated: every scene is rendered before the first transition is
\* spliced, every splice is done before the caption pass, the caption pass
\* comes before the watermark pass, and length reconciliation is the last
\* step before the return.
C14_StrictlySequential ==
    [][/\ (pc = "splice" /\ transition_overlap' > 0) =>
              scene_idx = Len(scenes) - 1 /\ pc' # "render"
       /\ pc' = "captions" => pc = "splice" /\ scene_idx = Len(scenes) - 1
       /\ pc' = "watermark" => pc = "captions"
       /\ pc' = "reconcile" => pc = "watermark"
       /\ pc = "reconcile" => pc' = "check_frames"
       /\ Returned => processed_frames' = processed_frames]_vars

\* C14 as amended: the scenes are taken in order, each rendered and then
\* spliced before the next one is rendered; the last scene's splice is done
\* before the caption pass, the caption pass comes before the watermark
\* pass, and length reconciliation is the last step before the return.
C14_RenderSpliceInterleaved ==
    [][/\ pc' = "render" =>
              \/ pc = "scene_prep" /\ scene_idx' = 0
              \/ pc = "splice" /\ scene_idx' = scene_idx + 1 /\ scene_idx' < Len(scenes)
       /\ pc' = "splice" =>
              /\ pc = "render" /\ scene_idx' = scene_idx
              /\ Len(scene_frames') = frames_per_scene
              /\ processed_frames' = processed_frames
       /\ pc = "splice" => scene_frames' = <<>>
       /\ pc' = "captions" => pc = "splice" /\ scene_idx = Len(scenes) - 1
       /\ pc' = "watermark" => pc = "captions"
       /\ pc' = "reconcile" => pc = "watermark"
       /\ pc = "reconcile" => pc' = "check_frames"
       /\ Returned => processed_frames' = processed_frames]_vars

\* the third scene is about to be rendered, after a transition was spliced
C14_Witness ==
    /\ pc = "render" /\ scene_idx = 2 /\ Len(scenes) = 5
    /\ transition_overlap > 0 /\ scene_frames = <<>>
    /\ \E i \in 1..Len(processed_frames) : processed_frames[i].kind = "transition"

-----------------------------------------------------------------------------
(* Scene boundaries without a transition (checked under Spec) *)

\* C15: where no transition is spliced (no transitions in the template, too
\* few frames per scene, or a window that does not fit) the new scene's
\* frames are appended as they are, in order, after the accumulated sequence
\* as it is, and the assembler goes on as usual.
C15_DirectConcatenation ==
    [][(pc = "splice" /\ ~HasTransition(scene_idx, template, frames_per_scene,
                                        processed_frames, scene_frames)) =>
          /\ processed_frames' = processed_frames \o scene_frames
          /\ Len(processed_frames') = Len(processed_frames) + frames_per_scene
          /\ transition_overlap' = 0
          /\ pc' \in {"render", "captions"}]_vars

\* a template whose transitions were overridden to none: the second scene
\* followed the first directly, and the run went on to the third
C15_Witness ==
    /\ pc = "render" /\ scene_idx = 2
    /\ Len(template.transitions) = 0 /\ transition_overlap = 0
    /\ Len(processed_frames) = 2 * frames_per_scene
    /\ \A i \in 1..Len(processed_frames) :
          /\ processed_frames[i].kind = "scene"
          /\ processed_frames[i].scene = (i - 1) \div frames_per_scene
          /\ processed_frames[i].k = (i - 1) % frames_per_scene

-----------------------------------------------------------------------------
(* Lookups by key.  SpecFallback is one call of one of the three entry      *)
(* points where a key selects behaviour: create_professional_video on        *)
(* requests that name an unregistered template or a template without a       *)
(* "title" style, apply_transition, or apply_camera_movement; the latter two *)
(* may be passed a type or an easing that the function does not know.        *)

FallbackRequests ==
    {Request(<<1>>, {"title"}, name, NoCustomSettings, 1, 1, FALSE, FALSE, FALSE, "") :
        name \in {"unknown", "", "news", "storytelling", "cinematic"}}

\* apply_camera_movement(img, movement, progress) is called
CameraMovementCall ==
    /\ cpc = "ready"
    /\ UNCHANGED notCam
    /\ \E type \in KnownMovements \cup {"dolly", ""} :
          movement' = CameraMovement(type, <<5, 5>>, <<5, 5>>, 10, 12)
    /\ \E k \in 0..CamSteps : cam_progress' = Frac(k, CamSteps)
    /\ cam_out' = NoFrame
    /\ cpc' = "called"
    /\ UNCHANGED <<cam_size, crop>>

\* lines 280-289
CameraMovementDispatch ==
    /\ cpc = "called"
    /\ UNCHANGED notCam
    /\ cam_out' = ApplyCameraMovement(SourceFrame, movement)
    /\ cpc' = "returned"
    /\ UNCHANGED <<movement, cam_size, cam_progress, crop>>

FallbackInit ==
    \/ AsmStart(FallbackRequests) /\ TrIdle /\ FxIdle /\ CamIdle /\ AnIdle
    \/ AsmIdle /\ TrInit /\ FxIdle /\ CamIdle /\ AnIdle
    \/ AsmIdle /\ TrIdle /\ FxIdle /\ CamInit /\ AnIdle
FallbackNext ==
    \/ GetTemplate \/ ScenePrep \/ RenderScene \/ SpliceScene \/ CaptionPass
    \/ WatermarkPass \/ LengthReconcile \/ CheckFrames \/ MixMusic \/ EncodeVideo
    \/ GenerateMetadata
    \/ TransitionCall \/ TransitionEase \/ TransitionDispatch
    \/ CameraMovementCall \/ CameraMovementDispatch
SpecFallback == FallbackInit /\ [][FallbackNext]_vars

\* C16: a key that is not known never fails the call and selects a fixed
\* default: an unregistered template_name the cinematic template, a template
\* without a "title" style the default TextStyle for the title, an unknown
\* transition type the fade, an unknown easing the linear one (progress as
\* passed), an unknown camera movement the frame as it was passed.
C16_Fallbacks ==
    /\ (pc \notin {"idle", "get_template"} /\ template_name \notin DOMAIN get_templates) =>
          template = CinematicTemplate
    /\ (pc = "splice" /\ scene_idx = 0 /\ "title" \notin DOMAIN template.text_styles) =>
          \A i \in 1..(3 * fps) :
              scene_frames[i].title = <<i, 3 * fps, TextStyleDefault>>
    /\ (tpc = "returned" /\ transition.type \notin TransitionTypes) =>
          img_mix = FadeTransition(progress)
    /\ (tpc \in {"eased", "returned"} /\ transition.easing \notin Easings) =>
          progress = progress_in
    /\ (cpc = "returned" /\ movement.type \notin KnownMovements) =>
          cam_out = SourceFrame
    /\ (cpc = "returned" /\ movement.type \in KnownMovements) =>
          cam_out.id # SourceFrame.id
    /\ pc = "done" => result = Success /\ Len(processed_frames) = duration * fps

\* a request that named an unregistered template was served to the end with
\* the cinematic template: its title style, camera movement and transitions
C16_Witness ==
    /\ pc = "done" /\ template_name = "unknown" /\ template = CinematicTemplate
    /\ result = Success
    /\ processed_frames[1].title[3] = CinematicTemplate.text_styles["title"]
    /\ processed_frames[1].cam = "ken_burns"

-----------------------------------------------------------------------------
(* Width of the transition window (checked under Spec) *)

TransitionFrames(frames) == {i \in 1..Len(frames) : frames[i].kind = "transition"}

\* C17 as stated: the window of a spliced transition is
\* min(1, frames_per_scene \div 4) frames wide.
C17_WindowIsMin ==
    [][(pc = "splice" /\ HasTransition(scene_idx, template, frames_per_scene,
                                       processed_frames, scene_frames)) =>
          transition_overlap' = Min(1, frames_per_scene \div 4)]_vars

\* C17 as amended: the window of a spliced transition is
\* max(1, frames_per_scene \div 4) frames wide, and that many transition
\* frames take the place of the last frames of the accumulated sequence.
C17_WindowIsMax ==
    [][(pc = "splice" /\ HasTransition(scene_idx, template, frames_per_scene,
                                       processed_frames, scene_frames)) =>
          LET w == Max(1, frames_per_scene \div 4) IN
          /\ transition_overlap' = w
          /\ TransitionFrames(processed_frames') =
                TransitionFrames(processed_frames)
                   \cup ((Len(processed_frames) - w + 1)..Len(processed_frames))
          /\ \A i \in TransitionFrames(processed_frames) :
                processed_frames[i] = processed_frames'[i]]_vars

\* scenes of 30 frames: the window at the first boundary was 7 frames wide
C17_Witness ==
    /\ pc = "render" /\ scene_idx = 2 /\ frames_per_scene = 30
    /\ transition_overlap = 7
    /\ TransitionFrames(processed_frames) = 24..30
    /\ Len(processed_frames) = 53

-----------------------------------------------------------------------------
(* Title sequence and end screen (checked under Spec) *)

HasTitle(f) == f.title # <<>>

\* C18: of a rendered scene's frames, the title is on exactly the first
\* min(3 * fps, frames_per_scene) frames of the first scene, the end screen
\* on exactly the last min(3 * fps, frames_per_scene) frames of the last
\* scene; a middle scene has neither, the first scene no end screen.
C18_TitleAndEndScreen ==
    LET n == Min(3 * fps, frames_per_scene) IN
    /\ pc = "splice" =>
          /\ Len(scene_frames) = frames_per_scene
          /\ \A i \in 1..Len(scene_frames) :
                /\ HasTitle(scene_frames[i]) <=> (scene_idx = 0 /\ i <= n)
                /\ scene_frames[i].end_screen <=>
                      (scene_idx = Len(scenes) - 1 /\ i > frames_per_scene - n)
                /\ scene_idx = 0 => ~scene_frames[i].end_screen
    /\ \A i \in 1..Len(processed_frames) :
          /\ HasTitle(processed_frames[i]) => processed_frames[i].scene = 0
          /\ processed_frames[i].end_screen =>
                processed_frames[i].scene = Len(scenes) - 1

\* the last of five scenes is rendered: 6 end-screen frames at its end, the
\* title on the first 6 frames of the sequence and on no other
C18_Witness ==
    /\ pc = "splice" /\ scene_idx = 4 /\ Len(scenes) = 5 /\ fps = 2
    /\ {i \in 1..Len(scene_frames) : scene_frames[i].end_screen} = 25..30
    /\ {i \in 1..Len(scene_frames) : HasTitle(scene_frames[i])} = {}
    /\ {i \in 1..Len(processed_frames) : HasTitle(processed_frames[i])} = 1..6
    /\ {i \in 1..Len(processed_frames) : processed_frames[i].end_screen} = {}

-----------------------------------------------------------------------------
(* The watermark (checked under Spec) *)

Watermarked == add_watermark /\ watermark_text # ""

\* C19 as stated: when a watermark with text is requested, every frame of
\* the returned sequence, the frames appended by length reconciliation
\* included, carries the watermark once, its glyphs filled at alpha 1/2.
C19_WatermarkHalfOpacity ==
    (Returned /\ Watermarked) =>
        \A i \in 1..Len(processed_frames) :
            /\ Len(processed_frames[i].wm) = 1
            /\ 2 * processed_frames[i].wm[1][3] = processed_frames[i].wm[1][4]

-----------------------------------------------------------------------------
(* _apply_animation as a process: a text with a fixed anchor is placed on   *)
(* successive frames, as the callers' loops do, with the progress going up  *)
(* from 0 to 1 in steps of 1 / AnimSteps.                                    *)

AnimSteps == 4          \* progress values are k / AnimSteps
MaxBounce == 20         \* line 217: abs(sin(...)) * 20

Animations == {"none", "fade", "slide", "typewriter", "bounce"}

\* anchors that _calculate_position gives in a FrameWidth x FrameHeight frame:
\* the top and bottom margins, a centred line, and the frame's edges
AnchorColumns == {50, 860}
AnchorRows == {0, 50, 515, FrameHeight - 100, FrameHeight}

AnInit ==
    /\ apc = "ready" /\ text_animation = "none" /\ anchor = <<0, 0>>
    /\ text_progress = Frac(0, 1) /\ placed = NoPlacement /\ placed_before = NoPlacement

\* the first frame of a text: _apply_animation(x, y, animation, 0, img.size)
AnimationCall ==
    /\ apc = "ready"
    /\ UNCHANGED notAn
    /\ text_animation' \in Animations \cup {"wave"}
    /\ anchor' \in AnchorColumns \X AnchorRows
    /\ text_progress' = Frac(0, AnimSteps)
    /\ placed' = NoPlacement /\ placed_before' = NoPlacement
    /\ apc' = "called"

\* lines 203-220
AnimationApply ==
    /\ apc = "called"
    /\ UNCHANGED notAn
    /\ \E bounce \in 0..MaxBounce :
          placed' = ApplyAnimation(anchor[1], anchor[2], text_animation, text_progress,
                                   FrameHeight, bounce)
    /\ apc' = "returned"
    /\ UNCHANGED <<text_animation, anchor, text_progress, placed_before>>

\* the next frame of the same text, one step further in progress
AnimationNextFrame ==
    /\ apc = "returned"
    /\ UNCHANGED notAn
    /\ text_progress.num < text_progress.den
    /\ text_progress' = Frac(text_progress.num + 1, text_progress.den)
    /\ placed_before' = placed
    /\ apc' = "called"
    /\ UNCHANGED <<text_animation, anchor, placed>>

AnimationInit == AsmIdle /\ TrIdle /\ FxIdle /\ CamIdle /\ AnInit
AnimationNext == AnimationCall \/ AnimationApply \/ AnimationNextFrame
SpecAnimation == AnimationInit /\ [][AnimationNext]_vars

-----------------------------------------------------------------------------
(* Properties of the text animation (checked under SpecAnimation) *)

Placed == apc = "returned"

\* what C20 says of opacity and of the horizontal position
AnimationAlphaAndColumn ==
    LET p == text_progress IN
    /\ placed.x = anchor[1]
    /\ text_animation = "fade" => placed.alpha.num * p.den = p.num * placed.alpha.den
    /\ text_animation = "typewriter" =>
          /\ placed.alpha.num * p.den = Min(p.den, 2 * p.num) * placed.alpha.den
          /\ 2 * p.num >= p.den => placed.alpha.num = placed.alpha.den
    /\ text_animation = "slide" => placed.alpha.num = placed.alpha.den
    /\ text_animation \in {"fade", "typewriter"} => placed.y = anchor[2]

\* C20 as stated: fade has opacity = progress, typewriter min(1, 2 * progress),
\* slide has opacity 1 and puts the text (H - y) * (1 - progress) below its
\* anchor y, never lower than on the frame before and at y at progress 1; no
\* animation changes the horizontal position.
C20_ExactSlideOffset ==
    Placed =>
        /\ AnimationAlphaAndColumn
        /\ text_animation = "slide" =>
              /\ (placed.y - anchor[2]) * text_progress.den =
                    (FrameHeight - anchor[2]) * (text_progress.den - text_progress.num)
              /\ text_progress.num > 0 => placed.y <= placed_before.y
              /\ text_progress.num = text_progress.den => placed.y = anchor[2]

\* C20 as amended: the same, with the slide's offset cut to whole pixels:
\* the text is at int(y + (H - y) * (1 - progress)).
C20_SlideOffsetInPixels ==
    Placed =>
        /\ AnimationAlphaAndColumn
        /\ text_animation = "slide" =>
              LET exact == anchor[2] * text_progress.den
                              + (FrameHeight - anchor[2])
                                   * (text_progress.den - text_progress.num)
              IN  /\ placed.y * text_progress.den <= exact
                  /\ exact < (placed.y + 1) * text_progress.den
                  /\ text_progress.num > 0 => placed.y <= placed_before.y
                  /\ text_progress.num = 0 => placed.y = FrameHeight
                  /\ text_progress.num = text_progress.den => placed.y = anchor[2]

\* a sliding text a quarter of the way: 423.75 pixels below its anchor 515,
\* placed 423 below, after starting at the frame's bottom edge
C20_Witness ==
    /\ Placed /\ text_animation = "slide" /\ anchor = <<860, 515>>
    /\ text_progress = Frac(1, AnimSteps) /\ AnimSteps = 4
    /\ placed = [x |-> 860, y |-> 938, alpha |-> Frac(1, 1)]
    /\ placed_before.y = FrameHeight

-----------------------------------------------------------------------------
(* Shape of the easing functions (checked under SpecTransition) *)

Eased == tpc \in {"eased", "returned"}

\* a / b <= c / d for positive denominators
FracLeq(a, b) == a.num * b.den <= b.num * a.den

\* C21: on [0, 1] every easing function has its values in [0, 1] and never
\* decreases from one progress value to the next; the two branches of
\* ease-in-out both give 1/2 at progress 1/2.
C21_EasingMonotone ==
    Eased =>
        /\ progress.den > 0 /\ 0 <= progress.num /\ progress.num <= progress.den
        /\ progress_in.num < progress_in.den =>
              FracLeq(progress,
                      ApplyEasing(Frac(progress_in.num + 1, progress_in.den),
                                  transition.easing))
        /\ (transition.easing = "ease-in-out" /\ 2 * progress_in.num = progress_in.den) =>
              /\ 2 * progress.num = progress.den
              /\ 2 * EaseInOutLow(progress_in).num = EaseInOutLow(progress_in).den
              /\ 2 * EaseInOutHigh(progress_in).num = EaseInOutHigh(progress_in).den

\* ease-in-out at its split point
C21_Witness ==
    /\ tpc = "eased" /\ transition.easing = "ease-in-out"
    /\ progress_in = Frac(2, 4) /\ 2 * progress.num = progress.den
    /\ progress = EaseInOutHigh(progress_in)

-----------------------------------------------------------------------------
(* Captions drawn on the same frame (checked under Spec) *)

\* the segments drawn on frame f, first drawn first
DrawnSegments(f) == [c \in 1..Len(f.caps) |-> f.caps[c][1]]

\* C22: the caption pass returns as many frames as it was given, each the
\* given frame with its captions drawn on it and nothing else changed; the
\* captions of a frame are drawn one by one in the order of the caption list
\* (the segments' order), a later one over an earlier one.
C22_StackedCaptions ==
    [][(pc = "captions" /\ add_captions) =>
          /\ Len(processed_frames') = Len(processed_frames)
          /\ \A i \in 1..Len(processed_frames) :
                LET before == processed_frames[i]
                    after  == processed_frames'[i]
                    drawn  == DrawnSegments(after)
                IN  /\ before.caps = <<>>
                    /\ after = [before EXCEPT !.caps = after.caps]
                    /\ \A c \in 1..(Len(drawn) - 1) : drawn[c] < drawn[c + 1]
                    /\ {drawn[c] : c \in 1..Len(drawn)} =
                          {s \in StorySegments :
                              /\ s * duration * fps <= 5 * (i - 1)
                              /\ 5 * (i - 1) <= (s + 1) * duration * fps}]_vars

\* frame 6 of a 30 s video at 1 fps: the first caption (at its end) and the
\* second (at its start) are both drawn, the first one first
C22_Witness ==
    /\ pc = "watermark" /\ add_captions /\ duration = 30 /\ fps = 1
    /\ processed_frames[7].caps = <<<<0, 30, 30>>, <<1, 0, 30>>>>
    /\ processed_frames[6].caps = <<<<0, 30, 30>>>>
    /\ Len(processed_frames) = 26

-----------------------------------------------------------------------------
(* Repeated calls on one AdvancedVideoCreator.  SpecRepeat lets a creator   *)
(* serve up to MaxCalls requests one after the other; self.templates is     *)
(* built once, in __init__, and kept from call to call.                      *)

MaxCalls == 2

CustomEffects ==
    CustomSettings({"effects"}, [blur |-> 200, contrast |-> 100], <<>>,
                   "title" :> TextStyleDefault)
CustomTextStyles ==
    CustomSettings({"text_styles"}, [blur |-> 0], <<>>,
                   "title" :> TextStyle([font_size |-> 20, animation |-> "slide"]))

RepeatRequests ==
    {Request(<<1>>, {"title"}, name, custom, 1, 1, FALSE, FALSE, FALSE, "") :
        name \in {"cinematic", "minimal"},
        custom \in {NoCustomSettings, NoTransitions, CustomEffects, CustomTextStyles}}

\* create_professional_video is called again on the same creator
CallAgain ==
    /\ pc = "done" /\ calls < MaxCalls
    /\ UNCHANGED notAsm
    /\ \E r \in RepeatRequests :
          /\ images' = r.images
          /\ supplied' = r.images
          /\ story' = r.story
          /\ template_name' = r.template_name
          /\ custom_settings' = r.custom_settings
          /\ duration' = r.duration
          /\ fps' = r.fps
          /\ add_captions' = r.add_captions
          /\ add_music' = r.add_music
          /\ add_watermark' = r.add_watermark
          /\ watermark_text' = r.watermark_text
    /\ scenes' = <<>> /\ template' = None
    /\ total_frames' = 0 /\ seconds_per_image' = 0 /\ ideal_image_count' = 0
    /\ frames_per_scene' = 0 /\ scene_idx' = 0 /\ scene_frames' = <<>>
    /\ processed_frames' = <<>> /\ transition_overlap' = 0
    /\ reached' = {} /\ result' = NotReturned
    /\ calls' = calls + 1
    /\ pc' = "get_template"
    /\ UNCHANGED templates

RepeatInit == AsmStart(RepeatRequests) /\ TrIdle /\ FxIdle /\ CamIdle /\ AnIdle
RepeatNext ==
    \/ GetTemplate \/ ScenePrep \/ RenderScene \/ SpliceScene \/ CaptionPass
    \/ WatermarkPass \/ LengthReconcile \/ CheckFrames \/ MixMusic \/ EncodeVideo
    \/ GenerateMetadata \/ CallAgain
SpecRepeat == RepeatInit /\ [][RepeatNext]_vars

\* C23: custom settings are applied to the registry's own template: the
\* registry entry of the template named becomes the overridden template and
\* is never restored, so a later call with no custom settings gets the
\* template as the earlier calls left it and renders with it.
C23_RegistryMutated ==
    [][/\ pc = "get_template" =>
              LET key == TemplateKey(template_name, templates) IN
              /\ template' = templates'[key]
              /\ \A other \in DOMAIN templates \ {key} : templates'[other] = templates[other]
              /\ custom_settings.keys = {} => template' = templates[key]
              /\ "effects" \in custom_settings.keys =>
                    /\ templates'[key].effects.blur = custom_settings.effects.blur
                    /\ templates'[key].effects.contrast = custom_settings.effects.contrast
                    /\ templates'[key].effects.vignette = templates[key].effects.vignette
              /\ "transitions" \in custom_settings.keys =>
                    templates'[key].transitions = custom_settings.transitions
              /\ "text_styles" \in custom_settings.keys =>
                    templates'[key].text_styles["title"] = custom_settings.text_styles["title"]
       /\ pc # "get_template" => templates' = templates
       /\ pc \notin {"get_template", "done"} => template' = template
       /\ pc' = "splice" =>
              \A i \in 1..Len(scene_frames') :
                  scene_frames'[i].fx = ApplyEffectsSteps(templates[template_name].effects)]_vars

\* the second call names "minimal" with no custom settings and is served
\* with what the first call's custom settings made of it: blur, and no
\* transitions spliced
C23_Witness ==
    /\ calls = 2 /\ pc = "done" /\ template_name = "minimal"
    /\ custom_settings = NoCustomSettings
    /\ template # get_templates["minimal"]
    /\ template.effects.blur = 200
    /\ processed_frames[1].fx = <<"brightness", "saturation", "blur">>

-----------------------------------------------------------------------------
(* Length before reconciliation, and the padding (checked under Spec) *)

\* N * F - (N - 1) * (F \div 4)
SplicedLength ==
    Len(scenes) * frames_per_scene - (Len(scenes) - 1) * (frames_per_scene \div 4)

\* C24: with a template that has a transition, the sequence is
\* N * F - (N - 1) * (F \div 4) frames long when reconciliation starts; when
\* N scenes fill the duration exactly, the last (N - 1) * (F \div 4) frames
\* returned are copies of the last frame rendered.
C24_PaddedTail ==
    (supplied # <<>> /\ pc \notin {"get_template", "scene_prep"}
        /\ Len(template.transitions) > 0) =>
        /\ pc \in {"captions", "watermark", "reconcile"} =>
              Len(processed_frames) = SplicedLength
        /\ (Returned /\ Len(scenes) * seconds_per_image = duration) =>
              /\ Len(processed_frames) = SplicedLength
                                            + (Len(scenes) - 1) * (frames_per_scene \div 4)
              /\ \A i \in SplicedLength..Len(processed_frames) :
                    /\ processed_frames[i] = processed_frames[SplicedLength]
                    /\ processed_frames[i].kind = "scene"
                    /\ processed_frames[i].scene = Len(scenes) - 1
                    /\ processed_frames[i].k = frames_per_scene - 1

\* 60 s at 2 fps: 4 scenes of 30 frames give 99 frames, and frames 100..120
\* repeat frame 99
C24_Witness ==
    /\ pc = "done" /\ duration = 60 /\ fps = 2 /\ Len(template.transitions) > 0
    /\ SplicedLength = 99 /\ Len(processed_frames) = 120
    /\ processed_frames[98] # processed_frames[99]
    /\ \A i \in 100..120 : processed_frames[i] = processed_frames[99]

-----------------------------------------------------------------------------
(* Captions on the returned frames (checked under Spec) *)

\* C25 as stated: with add_captions, frame i of the returned sequence, a
\* frame appended by the reconciliation included, shows exactly the generated
\* captions whose interval [s * duration / 5, (s + 1) * duration / 5]
\* contains i / fps.
C25_CaptionsFollowPlayhead ==
    (Returned /\ add_captions /\ supplied # <<>>) =>
        \A i \in FrameIndexes :
            /\ \A s \in StorySegments :
                  HasCaption(i, s) <=>
                      (s * duration * fps <= 5 * i /\ 5 * i <= (s + 1) * duration * fps)
            /\ \A c \in 1..Len(CaptionsOn(i)) : CaptionsOn(i)[c][1] \in StorySegments

-----------------------------------------------------------------------------
(* First and last returned frame (checked under Spec) *)

\* C26 as stated: for every duration and frame rate the first frame returned
\* is a title frame of the first scene and the last frame returned is an
\* end-screen frame of the last scene.
C26_TitleFirstEndScreenLast ==
    (Returned /\ supplied # <<>>) =>
        LET first == processed_frames[1]
            last  == processed_frames[Len(processed_frames)]
        IN  /\ HasTitle(first) /\ first.scene = 0
            /\ last.end_screen /\ last.scene = Len(scenes) - 1

-----------------------------------------------------------------------------
(* Transition windows do not overlap (checked under Spec) *)

\* the last n frames of a sequence
LastFrames(frames, n) == {frames[i] : i \in (Len(frames) - n + 1)..Len(frames)}

\* C27: the frames a transition at the boundary before scene i + 1 blends
\* away are all unblended frames of scene i, and every frame of the sequence
\* is either a frame of one scene or a blend of one frame of a scene with one
\* frame of the next scene.
C27_WindowsDisjoint ==
    /\ (pc = "splice" /\ HasTransition(scene_idx, template, frames_per_scene,
                                        processed_frames, scene_frames)) =>
          \A f \in LastFrames(processed_frames, TransitionOverlap(frames_per_scene)) :
              f.kind = "scene" /\ f.scene = scene_idx - 1
    /\ \A i \in 1..Len(processed_frames) :
          LET f == processed_frames[i] IN
          f.kind = "transition" =>
              /\ Len(f.parts) = 2
              /\ f.parts[1].kind = "scene" /\ f.parts[2].kind = "scene"
              /\ f.parts[2].scene = f.parts[1].scene + 1

\* scenes of 30 frames, the third about to be spliced: frames 24..30 are the
\* first window, and the 7 frames the second window takes are frames 47..53
C27_Witness ==
    /\ pc = "splice" /\ scene_idx = 2 /\ frames_per_scene = 30
    /\ HasTransition(scene_idx, template, frames_per_scene, processed_frames, scene_frames)
    /\ TransitionFrames(processed_frames) = 24..30
    /\ Len(processed_frames) = 53
    /\ \A i \in 47..53 : processed_frames[i].kind = "scene" /\ processed_frames[i].scene = 1

-----------------------------------------------------------------------------
(* The frames of a transition window (checked under Spec) *)

\* what apply_transition can return for the first frame of a window of n
\* frames under cfg: one mix per outcome of the rasteriser and of the noise
FirstWindowMixes(cfg, n) ==
    {TransitionVariant(cfg.type, ApplyEasing(Frac(0, n), cfg.easing), edge, noise) :
        edge \in BOOLEAN, noise \in NoiseFields}

\* frame k of the window at the boundary before scene b: its place in the
\* sequence, the frames it blends, its configuration and its raw progress k / w
WindowFrameShape(i) ==
    LET f == processed_frames[i]
        w == TransitionOverlap(frames_per_scene)
        b == f.scene
        count == Len(template.transitions)
    IN  /\ f.n = w /\ 0 <= f.k /\ f.k < w
        /\ i = b * (frames_per_scene - w) + f.k + 1
        /\ f.parts[1].scene = b - 1 /\ f.parts[1].k = frames_per_scene - w + f.k
        /\ f.parts[2].scene = b /\ f.parts[2].k = f.k
        /\ f.tr = template.transitions[(b % count) + 1]
        \* k / w < 1, and k / w = 0 only for the frame that opens the window
        /\ f.k * 1 < 1 * f.n
        /\ f.k = 0 <=> (i - 1 \notin TransitionFrames(processed_frames))
        /\ (i + 1 \in TransitionFrames(processed_frames)) =>
              processed_frames[i + 1].k * f.n > f.k * processed_frames[i + 1].n

\* C28 as stated: window frame k blends the k-th tail frame with the k-th
\* head frame at raw progress k / w under template.transitions[i mod len];
\* the raw progress rises strictly with k, never reaches 1 and is 0 at k = 0,
\* where the frame takes every pixel from the outgoing scene only.
C28_WindowFramesFirstOnlyOutgoing ==
    \A i \in TransitionFrames(processed_frames) :
        /\ WindowFrameShape(i)
        /\ processed_frames[i].k = 0 =>
              \A mix \in FirstWindowMixes(processed_frames[i].tr, processed_frames[i].n) :
                  \A px \in Pixels : mix[px][2] = 0 /\ mix[px][1] > 0

\* C28 as amended: the same, except that the first frame of a wipe may take
\* the corner pixel (0, 0) from the incoming scene.
C28_WindowFrames ==
    \A i \in TransitionFrames(processed_frames) :
        /\ WindowFrameShape(i)
        /\ processed_frames[i].k = 0 =>
              \A mix \in FirstWindowMixes(processed_frames[i].tr, processed_frames[i].n) :
                  \A px \in Pixels :
                      \/ mix[px][2] = 0 /\ mix[px][1] > 0
                      \/ /\ processed_frames[i].tr.type = "wipe" /\ px = <<0, 0>>
                         /\ mix[px][1] = 0 /\ mix[px][2] > 0

\* scenes of 30 frames under <<fade, wipe>>: the first window (frames 24..30)
\* is a wipe at progress 0/7 .. 6/7, the second (frames 47..53) a fade
C28_Witness ==
    /\ pc = "captions" /\ frames_per_scene = 30 /\ Len(template.transitions) = 2
    /\ TransitionFrames(processed_frames) = (24..30) \cup (47..53) \cup (70..76)
    /\ \A i \in 24..30 : /\ processed_frames[i].tr = template.transitions[2]
                          /\ processed_frames[i].tr.type = "wipe"
                          /\ processed_frames[i].k = i - 24 /\ processed_frames[i].n = 7
    /\ \A i \in 47..53 : /\ processed_frames[i].tr = template.transitions[1]
                          /\ processed_frames[i].tr.type = "fade"

-----------------------------------------------------------------------------
(* Texts without animation (checked under SpecAnimation) *)

\* the progress values k / AnimSteps
AnimationGrid == {Frac(k, AnimSteps) : k \in 0..AnimSteps}

-----------------------------------------------------------------------------
(* The caller's image list (checked under Spec) *)

\* what _process_scenes has left in the caller's list
CallerListOnlyPadded ==
    IF pc \in {"get_template", "scene_prep"} \/ supplied = <<>>
    THEN images = supplied
    ELSE /\ Len(scenes) = ideal_image_count
         /\ IF Len(supplied) < ideal_image_count
            THEN /\ Len(images) = ideal_image_count
                 /\ \A i \in 1..Len(images) :
                       images[i] = supplied[Min(i, Len(supplied))]
                 /\ scenes = images
            ELSE /\ images = supplied
                 /\ scenes = SubSeq(supplied, 1, ideal_image_count)

\* C30: the caller's image list is changed only by SCENE_PREP and only by
\* padding: with fewer images than scenes it is extended by repetitions of
\* its last element up to the scene count, otherwise it stays as supplied
\* (the scenes are then its first ideal_image_count elements, in a list of
\* their own); every frame is made from one of the supplied images.
C30_OnlyPadding ==
    /\ [](CallerListOnlyPadded)
    /\ [](\A i \in 1..Len(processed_frames) :
            processed_frames[i].kind = "scene" =>
                \E j \in 1..Len(supplied) : processed_frames[i].img = supplied[j])
    /\ [][pc # "scene_prep" => images' = images]_vars

\* two images for a video of five scenes: the caller's list has grown to five
C30_Witness ==
    /\ pc = "done" /\ supplied = <<1, 2>> /\ ideal_image_count = 5
    /\ images = <<1, 2, 2, 2, 2>> /\ scenes = images

====
